---- MODULE Spec2Model ----
(***************************************************************************)
(* Leonardo Jr. API: device registration, location history and event       *)
(* ingestion, modelled at the level of the request handlers' await points  *)
(* over a PostgreSQL database running at its default READ COMMITTED        *)
(* isolation (database.py sets no isolation level).                        *)
(*                                                                         *)
(* Every request handler runs in its own AsyncSession (database.get_db).   *)
(* A handler's step is the code between two awaits; the committed tables   *)
(* are the only state shared between requests.                             *)
(***************************************************************************)
EXTENDS Integers, Sequences, FiniteSets, TLC

(***************************************************************************)
(* Bounds of the model.                                                    *)
(***************************************************************************)
MaxRegStarts == 3   \* register requests issued in one behaviour
MaxLocStarts == 3   \* location requests issued in one behaviour
MaxEvStarts == 2    \* event and upload-logs requests issued in one behaviour

Slots == {1, 2}                 \* request handlers in flight at the same time
DeviceIds == {1, 2}             \* device_id strings, numbered
Users == {"U1", "U2"}           \* users.user_id of the existing accounts
NULL == "NULL"                  \* SQL NULL / Python None
NoToken == 0                    \* api_token IS NULL / no X-Api-Token header

(***************************************************************************)
(* Token derivation (services/device_service.py).  SHA-256 truncated to 16 *)
(* hex digits is modelled by a fixed mixing function on a small range; the *)
(* string "device_id:secret" is the pair encoded as a number.              *)
(***************************************************************************)
FACTORY_SECRET == 7
FthValues == 0..60
HashRange == 61

Sha256Hex16(x) == ((x * x * 5) + (x * 3) + 11) % HashRange

_derive_factory_token(device_id) == Sha256Hex16((device_id * 16) + FACTORY_SECRET)

_derive_factory_token_hash(factory_token) == Sha256Hex16(factory_token)

_compute_factory_token_hash(device_id) ==
    _derive_factory_token_hash(_derive_factory_token(device_id))

\* An fth with a character outside ASCII (the query parameter is any string)
NonAsciiFth == 61

\* secrets.compare_digest raises TypeError for a str with non-ASCII characters
CompareDigestRaises(fth) == fth = NonAsciiFth

\* Mutant: the comparison is dropped and every fth is accepted
verify_factory_token_hash_AcceptAll(device_id, fth) ==
    _derive_factory_token_hash(_derive_factory_token(device_id)) \in FthValues

verify_factory_token_hash(device_id, fth) ==
    _derive_factory_token_hash(_derive_factory_token(device_id)) = fth

\* fth values a client may present: the fth printed for any of the devices,
\* or a string that is no hex digest at all
FthInputs == {_compute_factory_token_hash(d) : d \in DeviceIds} \cup {NonAsciiFth}

VARIABLES
    devices,            \* committed table devices: device_id -> row or NoRow
    location_history,   \* committed table location_history: sequence, id = index
    detection_events,   \* committed table detection_events: set of rows
    event_seq,          \* detection_events id sequence (not transactional)
    notifications,      \* notifications handed to the notification service
    req,                \* per slot: the request handler's locals and position
    started,            \* requests issued so far (also feeds api_token freshness)
    overlapped,         \* history: device -> two register_location calls overlapped
    completed           \* history: device -> register_location calls that returned

vars == <<devices, location_history, detection_events, event_seq,
          notifications, req, started, overlapped, completed>>

NoRow == [exists |-> FALSE, owner_user_id |-> NULL, api_token |-> NoToken,
          factory_token_hash |-> NULL, status |-> NULL, plan_type |-> NULL,
          notification_target |-> NULL]

\* A devices row created ahead of registration (owner_user_id IS NULL).
UnboundRow(d) == [exists |-> TRUE, owner_user_id |-> NULL, api_token |-> NoToken,
                  factory_token_hash |-> _compute_factory_token_hash(d),
                  status |-> "active", plan_type |-> "consumer",
                  notification_target |-> NULL]

\* scalar_one_or_none() of an empty result: None
NoLocation == [id |-> 0, device_id |-> 0, lat |-> 0, registered_by |-> NULL,
               registered_at |-> 0, active_flag |-> FALSE]

\* A request handler's locals.  seen: what the handler's first read of its
\* device found; wrote: the handler committed a write.
Idle == [kind |-> "idle", pc |-> "idle", device_id |-> 0, user |-> NULL,
         fth |-> 0, token |-> NoToken, lat |-> 0, password |-> NULL, serial |-> 0,
         dev |-> NoRow, cand |-> {}, locked |-> {}, ts |-> 0, id |-> 0,
         ip |-> NULL, detection_type |-> NULL, event |-> NULL,
         active_loc |-> NoLocation, geo |-> NULL, args |-> NULL,
         batch |-> 0, seen |-> NULL,
         cred_device |-> 0, status_seen |-> NULL,
         steps |-> <<>>, wrote |-> FALSE, resp |-> 0, body |-> NULL,
         queue |-> {}, getaddrinfo |-> "_orig_getaddrinfo"]

\* The handler returns (or raises): the response goes out, the session closes
\* and the locals are gone.
Finish(r, status_code, body) ==
    [Idle EXCEPT !.kind = r.kind, !.pc = "done", !.device_id = r.device_id,
                 !.user = r.user, !.fth = r.fth, !.seen = r.seen,
                 !.steps = r.steps, !.wrote = r.wrote, !.id = r.id,
                 !.status_seen = r.status_seen, !.cred_device = r.cred_device,
                 !.resp = status_code, !.body = body]

Init ==
    /\ devices \in [DeviceIds -> {NoRow}] \cup
                   {[d \in DeviceIds |-> IF d = 1 THEN UnboundRow(d) ELSE NoRow]}
    /\ location_history = <<>>
    /\ detection_events = {}
    /\ event_seq = 0
    /\ notifications = <<>>
    /\ req = [s \in Slots |-> Idle]
    /\ started = 0
    /\ overlapped = [d \in DeviceIds |-> FALSE]
    /\ completed = [d \in DeviceIds |-> 0]

Free(s) == req[s].pc \in {"idle", "done"}

Bound(row) == row.exists /\ row.owner_user_id # NULL

RowState(row) == IF ~row.exists THEN "absent"
                 ELSE IF row.owner_user_id = NULL THEN "unbound" ELSE "bound"

\* _generate_api_token: secrets.token_urlsafe(32), a value never issued before
_generate_api_token(serial) == serial

(***************************************************************************)
(* POST /devices/{device_id}/register                                      *)
(***************************************************************************)
StartRegister(s) ==
    /\ Free(s) /\ started < MaxRegStarts
    /\ \E d \in DeviceIds, u \in Users, f \in FthInputs :
         req' = [req EXCEPT ![s] = [Idle EXCEPT !.kind = "register",
                     !.pc = "reg_check", !.device_id = d, !.user = u,
                     !.fth = f, !.serial = started + 1]]
    /\ started' = started + 1
    /\ UNCHANGED <<devices, location_history, detection_events, event_seq,
                   notifications, overlapped, completed>>

\* Mutant: the endpoint leaves the bound check to register_device
RegisterAfterCheck_NoBoundCheck(r) ==
    LET existing == devices[r.device_id]
        r1 == [r EXCEPT !.seen = RowState(existing)] IN
    IF CompareDigestRaises(r.fth)
        THEN Finish(r1, 500, "TypeError")
    ELSE IF ~verify_factory_token_hash(r.device_id, r.fth)
        THEN Finish(r1, 400, "fth")
    ELSE [r1 EXCEPT !.pc = "reg_select"]

\* Steps 1 and 2 of register_device_endpoint: fth check, then the bound
\* check.  A TypeError out of verify_factory_token_hash has no handler.
RegisterAfterCheck(r) ==
    LET existing == devices[r.device_id]
        r1 == [r EXCEPT !.seen = RowState(existing)] IN
    IF CompareDigestRaises(r.fth)
        THEN Finish(r1, 500, "TypeError")
    ELSE IF ~verify_factory_token_hash(r.device_id, r.fth)
        THEN Finish(r1, 400, "fth")
    ELSE IF existing.exists /\ existing.owner_user_id # NULL
        THEN Finish(r1, 409, "registered")
    ELSE [r1 EXCEPT !.pc = "reg_select", !.dev = existing]

register_device_endpoint(s) ==
    /\ req[s].pc = "reg_check"
    /\ req' = [req EXCEPT ![s] = RegisterAfterCheck(req[s])]
    /\ UNCHANGED <<devices, location_history, detection_events, event_seq,
                   notifications, started, overlapped, completed>>

\* register_device, its SELECT and double check.  A Device object the session
\* already holds (loaded by the endpoint's SELECT) is returned as loaded; a
\* row that appeared since is read from the committed table.  The endpoint
\* does not catch the ValueError.
RegisterAfterSelect(r) ==
    LET device == IF r.dev.exists THEN r.dev ELSE devices[r.device_id] IN
    IF device.exists /\ device.owner_user_id # NULL
        THEN Finish(r, 500, "ValueError")
    ELSE [r EXCEPT !.pc = "reg_commit", !.dev = device,
                   !.token = _generate_api_token(r.serial)]

register_device_select(s) ==
    /\ req[s].pc = "reg_select"
    /\ req' = [req EXCEPT ![s] = RegisterAfterSelect(req[s])]
    /\ UNCHANGED <<devices, location_history, detection_events, event_seq,
                   notifications, started, overlapped, completed>>

\* Mutant: binding a row created ahead of registration sets the owner only
BoundRow_OwnerOnly(r, old) ==
    IF ~r.dev.exists
        THEN [exists |-> TRUE, owner_user_id |-> r.user, api_token |-> r.token,
              factory_token_hash |-> _compute_factory_token_hash(r.device_id),
              status |-> "active", plan_type |-> "consumer",
              notification_target |-> NULL]
    ELSE [old EXCEPT !.owner_user_id = r.user]

\* The row register_device writes: a new Device, or owner and api_token set
\* on the loaded one.
BoundRow(r, old) ==
    IF ~r.dev.exists
        THEN [exists |-> TRUE, owner_user_id |-> r.user, api_token |-> r.token,
              factory_token_hash |-> _compute_factory_token_hash(r.device_id),
              status |-> "active", plan_type |-> "consumer",
              notification_target |-> NULL]
    ELSE [old EXCEPT !.owner_user_id = r.user, !.api_token = r.token]

\* The INSERT of a device_id that is already a primary key of devices
IntegrityError(r) == ~r.dev.exists /\ devices[r.device_id].exists

\* The status the caller gets when register_device re-raises IntegrityError:
\* register_device_endpoint has no handler for it
IntegrityErrorResponse == 500

\* register_device, db.commit(): INSERT (new Device) or UPDATE (loaded Device)
register_device_commit(s) ==
    /\ req[s].pc = "reg_commit"
    /\ IF IntegrityError(req[s])
         THEN /\ req' = [req EXCEPT ![s] =
                            Finish(req[s], IntegrityErrorResponse, "IntegrityError")]
              /\ UNCHANGED devices
         ELSE /\ devices' = [devices EXCEPT ![req[s].device_id] =
                                BoundRow(req[s], devices[req[s].device_id])]
              /\ req' = [req EXCEPT ![s] =
                            Finish([req[s] EXCEPT !.wrote = TRUE], 201, "api_token")]
    /\ UNCHANGED <<location_history, detection_events, event_seq,
                   notifications, started, overlapped, completed>>

(***************************************************************************)
(* Registration state machine: claims.                                     *)
(***************************************************************************)
DoneRegister(s) == req[s].kind = "register" /\ req[s].pc = "done"

\* the fth of the request is the hash re-derived from its device id
FthOk(s) == req[s].fth = _derive_factory_token_hash(_derive_factory_token(req[s].device_id))

\* Two register requests whose bound checks both found the device not bound:
\* neither had committed when the other checked, so they ran concurrently.
Raced(s, t) ==
    /\ s # t /\ DoneRegister(s) /\ DoneRegister(t)
    /\ req[s].device_id = req[t].device_id
    /\ FthOk(s) /\ FthOk(t)
    /\ req[s].seen \in {"absent", "unbound"}
    /\ req[t].seen \in {"absent", "unbound"}

\* C2: of two concurrent register requests with a correct fth for the same
\* unbound device, exactly one succeeds (201) and the other gets a conflict
\* (409); both never succeed.
C2_ExactlyOneOfTwoRacingRegistrationsSucceeds ==
    \A s, t \in Slots :
        Raced(s, t) => {req[s].resp, req[t].resp} = {201, 409}

C4_WrongFthRejectedWithoutWrite ==
    /\ [](\A s \in Slots :
            (DoneRegister(s) /\ ~FthOk(s)) =>
                (req[s].resp = 400 /\ ~req[s].wrote))
    /\ [][\A s \in Slots :
            (req[s].kind = "register" /\ req[s].pc # "done" /\ ~FthOk(s)
             /\ req'[s] # req[s]) =>
                (devices' = devices /\ req'[s].pc = "done")]_vars

\* C4 witness: a wrong fth was answered 400 for an absent device, which is
\* still absent.
C4_Witness ==
    \E s \in Slots :
        /\ DoneRegister(s) /\ ~FthOk(s) /\ req[s].resp = 400
        /\ req[s].seen = "absent"
        /\ ~devices[req[s].device_id].exists

\* C5: in every devices row api_token is non-null iff owner_user_id is.
C5_ApiTokenIffOwner ==
    \A d \in DeviceIds :
        devices[d].exists =>
            ((devices[d].api_token # NoToken) <=> (devices[d].owner_user_id # NULL))

\* C5 witness: a row created ahead of registration has been bound by the
\* UPDATE path and now has both columns, beside a row with neither.
C5_Witness ==
    \E s \in Slots :
        /\ DoneRegister(s) /\ req[s].seen = "unbound" /\ req[s].resp = 201
        /\ devices[req[s].device_id].owner_user_id # NULL
        /\ devices[req[s].device_id].api_token # NoToken

\* C6: a uniqueness conflict raised by register_device's commit reaches the
\* caller as a conflict response (409), not as a success and not as an
\* unhandled server error.
C6_CommitConflictSurfacedAsConflict ==
    \A s \in Slots :
        (DoneRegister(s) /\ req[s].body = "IntegrityError") => req[s].resp = 409

Next ==
    \E s \in Slots :
        \/ StartRegister(s)
        \/ register_device_endpoint(s)
        \/ register_device_select(s)
        \/ register_device_commit(s)

Spec == Init /\ [][Next]_vars
(***************************************************************************)
(* Location history (services/location_service.py, routers/               *)
(* location_router.py).  A transaction's writes stay private until its     *)
(* commit; its UPDATE holds row locks on the rows it changed until then.   *)
(***************************************************************************)
Lats == {35, 36}                \* latitudes a caller registers, in degrees
Passwords == {"pw-U1", "pw-U2"} \* passwords a caller may type

\* auth.hash_password / verify_password (bcrypt): the hash fixes the text
hash_password(plain) == <<"bcrypt", plain>>

\* Mutant: every password is taken for the right one
verify_password_AcceptAll(plain, hashed) == hashed[1] = "bcrypt"

verify_password(plain, hashed) == hashed = <<"bcrypt", plain>>

\* users.password_hash of the existing accounts
password_hash(u) == hash_password(IF u = "U1" THEN "pw-U1" ELSE "pw-U2")

\* Each device bound to its owner, as register_device leaves them
BoundDevices ==
    [d \in DeviceIds |->
        [exists |-> TRUE, owner_user_id |-> IF d = 1 THEN "U1" ELSE "U2",
         api_token |-> _generate_api_token(d),
         factory_token_hash |-> _compute_factory_token_hash(d),
         status |-> "active", plan_type |-> "consumer",
         notification_target |-> NULL]]

\* Device 1 is bound to U1; device 2 is bound to U2, or has a row created
\* ahead of registration, or has no row
InitLocation ==
    /\ devices \in {BoundDevices,
                    [BoundDevices EXCEPT ![2] = UnboundRow(2)],
                    [BoundDevices EXCEPT ![2] = NoRow]}
    /\ location_history = <<>>
    /\ detection_events = {}
    /\ event_seq = 0
    /\ notifications = <<>>
    /\ req = [s \in Slots |-> Idle]
    /\ started = 0
    /\ overlapped = [d \in DeviceIds |-> FALSE]
    /\ completed = [d \in DeviceIds |-> 0]

SetMax(S) == CHOOSE x \in S : \A y \in S : y <= x

RowIds(rows, d) == {i \in DOMAIN rows : rows[i].device_id = d}

ActiveIds(rows, d) == {i \in RowIds(rows, d) : rows[i].active_flag}

\* get_active_location: WHERE device_id AND active_flag
\*                      ORDER BY registered_at DESC LIMIT 1
get_active_location(rows, d) ==
    IF ActiveIds(rows, d) = {} THEN NoLocation
    ELSE LET i == CHOOSE i \in ActiveIds(rows, d) :
                    \A j \in ActiveIds(rows, d) :
                        rows[j].registered_at <= rows[i].registered_at
         IN rows[i]

\* Mutant: the owner is not part of the WHERE clause
get_device_for_owner_AnyUser(d, u) ==
    IF devices[d].exists THEN devices[d] ELSE NoRow

\* get_device_for_owner: WHERE device_id = :d AND owner_user_id = :u
get_device_for_owner(d, u) ==
    IF devices[d].exists /\ devices[d].owner_user_id = u
        THEN devices[d] ELSE NoRow

\* CURRENT_TIMESTAMP of a transaction that begins now: later than every
\* transaction begun before
Now ==
    1 + SetMax({0} \cup {location_history[i].registered_at :
                            i \in DOMAIN location_history}
                   \cup {req[t].ts : t \in Slots})

StartLocation(s) ==
    /\ Free(s) /\ started < MaxLocStarts
    /\ \E d \in DeviceIds, u \in Users, lat \in Lats :
         \/ req' = [req EXCEPT ![s] = [Idle EXCEPT !.kind = "location",
                       !.pc = "loc_owner", !.device_id = d, !.user = u,
                       !.lat = lat]]
         \/ \E pw \in Passwords :
              req' = [req EXCEPT ![s] = [Idle EXCEPT !.kind = "relocate",
                       !.pc = "loc_owner", !.device_id = d, !.user = u,
                       !.lat = lat, !.password = pw]]
         \/ req' = [req EXCEPT ![s] = [Idle EXCEPT !.kind = "setup",
                       !.pc = "loc_owner", !.device_id = d, !.user = u]]
    /\ started' = started + 1
    /\ UNCHANGED <<devices, location_history, detection_events, event_seq,
                   notifications, overlapped, completed>>

\* register_location_endpoint up to its call of register_location
LocationAfterOwnerCheck(r) ==
    LET device == get_device_for_owner(r.device_id, r.user) IN
    IF ~device.exists THEN Finish(r, 404, "not owner")
    ELSE [r EXCEPT !.pc = "loc_update"]

register_location_endpoint(s) ==
    /\ req[s].kind = "location" /\ req[s].pc = "loc_owner"
    /\ req' = [req EXCEPT ![s] = LocationAfterOwnerCheck(req[s])]
    /\ UNCHANGED <<devices, location_history, detection_events, event_seq,
                   notifications, started, overlapped, completed>>

\* relocate_endpoint up to its call of register_location
RelocateAfterChecks(r) ==
    LET device == get_device_for_owner(r.device_id, r.user) IN
    IF ~device.exists THEN Finish(r, 404, "not owner")
    ELSE IF ~verify_password(r.password, password_hash(r.user))
        THEN Finish(r, 401, "password")
    ELSE [r EXCEPT !.pc = "loc_update"]

relocate_endpoint(s) ==
    /\ req[s].kind = "relocate" /\ req[s].pc = "loc_owner"
    /\ req' = [req EXCEPT ![s] = RelocateAfterChecks(req[s])]
    /\ UNCHANGED <<devices, location_history, detection_events, event_seq,
                   notifications, started, overlapped, completed>>

LockedByOther(s, i) == \E t \in Slots \ {s} : i \in req[t].locked

InRegisterLocation(t) == req[t].pc \in {"loc_wait", "loc_commit"}

\* Mutant: the UPDATE is committed on its own, before the INSERT
VisibleAfterUpdate_OwnCommit(rows, ids) ==
    [i \in DOMAIN rows |->
        IF i \in ids THEN [rows[i] EXCEPT !.active_flag = FALSE] ELSE rows[i]]

\* The committed table other transactions read after the UPDATE has run
\* inside the transaction opened by db.begin(): the change is not committed
VisibleAfterUpdate(rows, ids) == rows

\* register_location: db.begin() and the UPDATE ... SET active_flag = FALSE.
\* The statement reads the rows committed when it starts, and waits for any
\* of them that another open transaction has locked.
register_location_update(s) ==
    /\ req[s].pc = "loc_update"
    /\ LET d == req[s].device_id
           snapshot == ActiveIds(location_history, d)
           blocked == \E i \in snapshot : LockedByOther(s, i)
       IN /\ req' = [req EXCEPT ![s] =
                        IF blocked
                        THEN [req[s] EXCEPT !.pc = "loc_wait", !.cand = snapshot,
                                            !.ts = Now]
                        ELSE [req[s] EXCEPT !.pc = "loc_commit",
                                            !.locked = snapshot, !.ts = Now]]
          /\ overlapped' = [overlapped EXCEPT ![d] =
                                @ \/ \E t \in Slots \ {s} :
                                        InRegisterLocation(t) /\ req[t].device_id = d]
          /\ location_history' =
                IF blocked THEN location_history
                ELSE VisibleAfterUpdate(location_history, snapshot)
    /\ UNCHANGED <<devices, detection_events, event_seq, notifications,
                   started, completed>>

\* The waiting UPDATE goes on once the locks are released: each row it waited
\* for is re-read as committed and is updated only if it still has
\* active_flag = TRUE; rows inserted since the statement began are not seen.
register_location_resume(s) ==
    /\ req[s].pc = "loc_wait"
    /\ \A i \in req[s].cand : ~LockedByOther(s, i)
    /\ LET still == {i \in req[s].cand : location_history[i].active_flag} IN
          /\ req' = [req EXCEPT ![s].pc = "loc_commit", ![s].cand = {},
                                ![s].locked = still]
          /\ location_history' = VisibleAfterUpdate(location_history, still)
    /\ UNCHANGED <<devices, detection_events, event_seq, notifications,
                   started, overlapped, completed>>

\* Mutant: the UPDATE that deactivates the old rows is left out
Deactivate_Nothing(rows, ids) == rows

\* Mutant: the UPDATE has no WHERE device_id and deactivates every row
Deactivate_EveryDevice(rows, ids) ==
    [i \in DOMAIN rows |-> [rows[i] EXCEPT !.active_flag = FALSE]]

\* The UPDATE's effect on the rows it locked
Deactivate(rows, ids) ==
    [i \in DOMAIN rows |->
        IF i \in ids THEN [rows[i] EXCEPT !.active_flag = FALSE] ELSE rows[i]]

\* The LocationHistory row register_location adds
NewLocation(r, id) ==
    [id |-> id, device_id |-> r.device_id, lat |-> r.lat,
     registered_by |-> r.user, registered_at |-> r.ts, active_flag |-> TRUE]

\* register_location: db.add(new_location) and the end of the db.begin()
\* block (flush, COMMIT), then refresh and return; the endpoint answers 201
register_location_commit(s) ==
    /\ req[s].pc = "loc_commit"
    /\ LET id == Len(location_history) + 1 IN
          /\ location_history' =
                Append(Deactivate(location_history, req[s].locked),
                       NewLocation(req[s], id))
          /\ req' = [req EXCEPT ![s] =
                        Finish([req[s] EXCEPT !.wrote = TRUE, !.id = id],
                               201, "location_id")]
    /\ completed' = [completed EXCEPT ![req[s].device_id] = @ + 1]
    /\ UNCHANGED <<devices, detection_events, event_seq, notifications,
                   started, overlapped>>

\* The call fails on entering or inside the db.begin() block (db.begin()
\* raises, cancelled task, lost connection, server crash): whatever the
\* transaction did is rolled back and the caller gets no answer but an error
register_location_abort(s) ==
    /\ req[s].pc \in {"loc_update", "loc_wait", "loc_commit"}
    /\ req' = [req EXCEPT ![s] = Finish(req[s], 500, "aborted")]
    /\ UNCHANGED <<devices, location_history, detection_events, event_seq,
                   notifications, started, overlapped, completed>>

\* PUT /devices/{device_id}/setup: owner check, then update_device_setup
\* stores the notification target on the loaded row and commits
setup_device_endpoint(s) ==
    /\ req[s].kind = "setup" /\ req[s].pc = "loc_owner"
    /\ LET r == req[s]
           device == get_device_for_owner(r.device_id, r.user)
       IN IF ~device.exists
            THEN /\ req' = [req EXCEPT ![s] = Finish(r, 404, "not owner")]
                 /\ UNCHANGED devices
            ELSE /\ devices' = [devices EXCEPT
                                  ![r.device_id].notification_target = "line_token"]
                 /\ req' = [req EXCEPT ![s] =
                               Finish([r EXCEPT !.wrote = TRUE], 200, "setup")]
    /\ UNCHANGED <<location_history, detection_events, event_seq,
                   notifications, started, overlapped, completed>>

NextLocation ==
    \E s \in Slots :
        \/ StartLocation(s)
        \/ setup_device_endpoint(s)
        \/ register_location_endpoint(s)
        \/ relocate_endpoint(s)
        \/ register_location_update(s)
        \/ register_location_resume(s)
        \/ register_location_commit(s)
        \/ register_location_abort(s)

SpecLocation == InitLocation /\ [][NextLocation]_vars

C9_DeactivateAndInsertAreAtomic ==
    [][\A d \in DeviceIds :
          ActiveIds(location_history, d) # {} =>
              ActiveIds(location_history', d) # {}]_vars

\* C9 witness: a register_location has run its UPDATE on the active row and
\* not yet committed, and the committed row is still active
C9_Witness ==
    \E s \in Slots :
        /\ req[s].pc = "loc_commit" /\ req[s].locked # {}
        /\ \A i \in req[s].locked : location_history[i].active_flag
(***************************************************************************)
(* Event ingestion (routers/event_router.py, auth.get_device_by_api_token, *)
(* services/geolocation_service.py).                                       *)
(***************************************************************************)
MaxBatch == 2                   \* items in one upload-logs request
LOCATION_MISMATCH_THRESHOLD_KM == 150

NoDistance == 0 - 1             \* distance_km is None
BadToken == 99                  \* an X-Api-Token no device has
TokenInputs == {NoToken, BadToken} \cup {_generate_api_token(d) : d \in DeviceIds}
IpInputs == {NULL, "203.0.113.7"}

\* What the geolocation lookup of an event's IP may give: nothing, or a
\* region and a point at some distance (km) from the registered coordinates
Unavailable == [available |-> FALSE, region |-> "", km |-> 0]
GeoResults == {Unavailable,
               [available |-> TRUE, region |-> "Nagano", km |-> 2],
               [available |-> TRUE, region |-> "Tokyo", km |-> 149],
               [available |-> TRUE, region |-> "Tokyo", km |-> 212]}

\* The ways the lookup at the geolocation API goes wrong: the IP is private;
\* the HTTP exchange fails, times out or answers an error status; the body is
\* not JSON; its status is not "success"; the body is JSON but not an object;
\* the body has a null coordinate
GeoFaults == {"private_ip", "http_error", "invalid_json", "not_success",
              "not_object", "null_coordinate"}

\* What get_geolocation's except clause catches: httpx.HTTPError, KeyError,
\* ValueError; the private IP and the status test return before any raise
HandledGeoFaults == {"private_ip", "http_error", "invalid_json", "not_success"}

GeoLookups ==
    {[fault |-> f, region |-> "", km |-> 0] : f \in GeoFaults} \cup
    {[fault |-> "none", region |-> g.region, km |-> g.km] :
        g \in GeoResults \ {Unavailable}}

\* The lookup ends in an exception get_geolocation does not catch
GeolocationRaises(lookup) ==
    lookup.fault # "none" /\ lookup.fault \notin HandledGeoFaults

\* get_geolocation when it returns
get_geolocation(lookup) ==
    IF lookup.fault = "none"
        THEN [available |-> TRUE, region |-> lookup.region, km |-> lookup.km]
        ELSE Unavailable

\* Device 1 has a registered location, device 2 has none
InitEvent ==
    /\ devices = BoundDevices
    /\ location_history =
          <<[id |-> 1, device_id |-> 1, lat |-> 36, registered_by |-> "U1",
             registered_at |-> 1, active_flag |-> TRUE]>>
    /\ detection_events = {}
    /\ event_seq = 0
    /\ notifications = <<>>
    /\ req = [s \in Slots |-> Idle]
    /\ started = 0
    /\ overlapped = [d \in DeviceIds |-> FALSE]
    /\ completed = [d \in DeviceIds |-> IF d = 1 THEN 1 ELSE 0]

\* devices.status is switched outside the API (UPDATE devices SET status)
suspend_device(d) ==
    /\ devices[d].exists /\ devices[d].status = "active"
    /\ devices' = [devices EXCEPT ![d].status = "suspended"]
    /\ UNCHANGED <<location_history, detection_events, event_seq,
                   notifications, req, started, overlapped, completed>>

StartEvent(s) ==
    /\ Free(s) /\ started < MaxEvStarts
    /\ \E d \in DeviceIds, tok \in TokenInputs :
         \/ \E ip \in IpInputs :
              req' = [req EXCEPT ![s] = [Idle EXCEPT !.kind = "event",
                       !.pc = "ev_auth", !.device_id = d, !.token = tok,
                       !.ip = ip, !.detection_type = "bear"]]
         \/ \E k \in 1..MaxBatch :
              req' = [req EXCEPT ![s] = [Idle EXCEPT !.kind = "upload",
                       !.pc = "ev_auth", !.device_id = d, !.token = tok,
                       !.batch = k, !.detection_type = "bear"]]
         \/ req' = [req EXCEPT ![s] = [Idle EXCEPT !.kind = "status",
                       !.pc = "ev_auth", !.device_id = d, !.token = tok]]
    /\ started' = started + 1
    /\ UNCHANGED <<devices, location_history, detection_events, event_seq,
                   notifications, overlapped, completed>>

\* SELECT ... WHERE api_token = :x_api_token
DeviceByToken(tok) ==
    IF \E d \in DeviceIds : devices[d].exists /\ devices[d].api_token = tok
        THEN LET d == CHOOSE d \in DeviceIds :
                        devices[d].exists /\ devices[d].api_token = tok
             IN [row |-> devices[d], device_id |-> d]
        ELSE [row |-> NoRow, device_id |-> 0]

Step(r, names) == [r EXCEPT !.steps = r.steps \o names]

\* get_device_by_api_token; cred_device is the device the credential belongs to
AfterAuthenticate(r) ==
    IF r.token = NoToken THEN Finish(Step(r, <<"authenticate">>), 401, "header")
    ELSE LET found == DeviceByToken(r.token) IN
         IF ~found.row.exists
            THEN Finish(Step(r, <<"authenticate">>), 401, "token")
         ELSE [Step(r, <<"authenticate">>) EXCEPT
                    !.pc = IF r.kind = "event" THEN "ev_persist"
                           ELSE IF r.kind = "upload" THEN "up_insert"
                           ELSE "st_check",
                    !.dev = found.row, !.cred_device = found.device_id,
                    !.status_seen = found.row.status]

get_device_by_api_token(s) ==
    /\ req[s].pc = "ev_auth"
    /\ req' = [req EXCEPT ![s] = AfterAuthenticate(req[s])]
    /\ UNCHANGED <<devices, location_history, detection_events, event_seq,
                   notifications, started, overlapped, completed>>

\* The DetectionEvent receive_event adds and flushes, location_mismatch
\* FALSE for the time being
ProvisionalEvent(r, id) ==
    [id |-> id, device_id |-> r.device_id, detection_type |-> r.detection_type,
     ip_address |-> r.ip, ip_geolocation_region |-> NULL,
     distance_from_registered_km |-> NoDistance, location_mismatch |-> FALSE]

\* Mutant: the suspended check is left out of receive_event
AfterChecksAndPersist_NoSuspendedCheck(r, id) ==
    IF r.cred_device # r.device_id
        THEN Finish(Step(r, <<"path_check">>), 403, "device id")
    ELSE [Step(r, <<"path_check", "status_check", "persist">>) EXCEPT
                !.pc = "ev_active", !.event = ProvisionalEvent(r, id),
                !.id = id]

\* Mutant: the event is added and flushed before the device checks
AfterChecksAndPersist_PersistFirst(r, id) ==
    LET r1 == [Step(r, <<"persist">>) EXCEPT !.event = ProvisionalEvent(r, id),
                                             !.id = id] IN
    IF r.cred_device # r.device_id
        THEN Finish(Step(r1, <<"path_check">>), 403, "device id")
    ELSE IF r.dev.status = "suspended"
        THEN Finish(Step(r1, <<"path_check", "status_check">>), 503, "suspended")
    ELSE [Step(r1, <<"path_check", "status_check">>) EXCEPT !.pc = "ev_active"]

\* receive_event from its first line to db.flush(): path id check, suspended
\* check, db.add(event)
AfterChecksAndPersist(r, id) ==
    IF r.cred_device # r.device_id
        THEN Finish(Step(r, <<"path_check">>), 403, "device id")
    ELSE IF r.dev.status = "suspended"
        THEN Finish(Step(r, <<"path_check", "status_check">>), 503, "suspended")
    ELSE [Step(r, <<"path_check", "status_check", "persist">>) EXCEPT
                !.pc = "ev_active", !.event = ProvisionalEvent(r, id),
                !.id = id]

\* Mutant: the flushed event is committed on its own, before the amendment
VisibleAfterFlush_OwnCommit(events, e) == events \cup {e}

\* The committed table other transactions read after db.flush(): the INSERT
\* has been sent inside the session's open transaction, nothing is committed
VisibleAfterFlush(events, e) == events

receive_event_persist(s) ==
    /\ req[s].pc = "ev_persist"
    /\ LET r == AfterChecksAndPersist(req[s], event_seq + 1)
           persisted == "persist" \in {r.steps[i] : i \in DOMAIN r.steps}
       IN /\ req' = [req EXCEPT ![s] = r]
          /\ event_seq' = IF persisted THEN event_seq + 1 ELSE event_seq
          /\ detection_events' =
                IF persisted /\ r.pc # "done"
                    THEN VisibleAfterFlush(detection_events,
                                           ProvisionalEvent(req[s], event_seq + 1))
                    ELSE detection_events
    /\ UNCHANGED <<devices, location_history,
                   notifications, started, overlapped, completed>>

\* Mutant: the evaluator is run whenever there is an active location
RunsEvaluator_IgnoreIp(active_loc, ip) == active_loc # NoLocation

\* if active_loc and ip
RunsEvaluator(active_loc, ip) == active_loc # NoLocation /\ ip # NULL

\* receive_event step 3, first half: the device's active location
receive_event_active_location(s) ==
    /\ req[s].pc = "ev_active"
    /\ LET active_loc == get_active_location(location_history, req[s].device_id) IN
          req' = [req EXCEPT ![s] =
                    [req[s] EXCEPT !.active_loc = active_loc,
                                   !.geo = [mismatch |-> FALSE, distance_km |-> NoDistance,
                                            event_region |-> ""],
                                   !.pc = IF RunsEvaluator(active_loc, req[s].ip)
                                             THEN "ev_geo" ELSE "ev_commit"]]
    /\ UNCHANGED <<devices, location_history, detection_events, event_seq,
                   notifications, started, overlapped, completed>>

\* Mutant: the verdict is computed also when geolocation is unavailable
check_location_mismatch_IgnoreAvailable(registered_region, geo) ==
    [mismatch |-> \/ geo.km >= LOCATION_MISMATCH_THRESHOLD_KM
                  \/ (registered_region # "" /\ geo.region # ""
                        /\ registered_region # geo.region),
     distance_km |-> geo.km, event_region |-> geo.region]

\* Mutant: the threshold itself does not count as a mismatch
check_location_mismatch_StrictThreshold(registered_region, geo) ==
    IF ~geo.available
        THEN [mismatch |-> FALSE, distance_km |-> NoDistance, event_region |-> ""]
    ELSE [mismatch |-> \/ geo.km > LOCATION_MISMATCH_THRESHOLD_KM
                       \/ (registered_region # "" /\ geo.region # ""
                             /\ registered_region # geo.region),
          distance_km |-> geo.km, event_region |-> geo.region]

\* check_location_mismatch given what get_geolocation answered; geo.km is
\* haversine_km of the registered coordinates and the resolved point
check_location_mismatch(registered_region, geo) ==
    IF ~geo.available
        THEN [mismatch |-> FALSE, distance_km |-> NoDistance, event_region |-> ""]
    ELSE LET distance_mismatch == geo.km >= LOCATION_MISMATCH_THRESHOLD_KM
             region_mismatch == /\ registered_region # ""
                                /\ geo.region # ""
                                /\ registered_region # geo.region
         IN [mismatch |-> distance_mismatch \/ region_mismatch,
             distance_km |-> geo.km, event_region |-> geo.region]

\* Mutant: the prefecture of the registered location is handed over
RegisteredRegionArg_Prefecture(active_loc) == "Nagano"

\* registered_region="": location_history has no prefecture column yet
RegisteredRegionArg(active_loc) == ""

\* receive_event step 3, second half: the geolocation lookup and the verdict;
\* an exception get_geolocation lets through leaves the handler, get_db rolls
\* the flushed event back and the client gets 500
receive_event_geolocate(s) ==
    /\ req[s].pc = "ev_geo"
    /\ \E lookup \in GeoLookups :
         req' = [req EXCEPT ![s] =
                    IF GeolocationRaises(lookup)
                    THEN Finish(Step(req[s], <<"geolocate">>), 500, "error")
                    ELSE [Step(req[s], <<"geolocate">>) EXCEPT
                            !.geo = check_location_mismatch(
                                        RegisteredRegionArg(req[s].active_loc),
                                        get_geolocation(lookup)),
                            !.pc = "ev_commit"]]
    /\ UNCHANGED <<devices, location_history, detection_events, event_seq,
                   notifications, started, overlapped, completed>>

\* receive_event step 4: the event with region, distance and flag set
AmendedEvent(r) ==
    [r.event EXCEPT
        !.ip_geolocation_region =
            IF r.geo.event_region = "" THEN NULL ELSE r.geo.event_region,
        !.distance_from_registered_km = r.geo.distance_km,
        !.location_mismatch = r.geo.mismatch]

\* receive_event step 4 and db.commit(), db.refresh(event): the amended
\* event becomes a committed row
receive_event_commit(s) ==
    /\ req[s].pc = "ev_commit"
    /\ detection_events' = detection_events \cup {AmendedEvent(req[s])}
    /\ req' = [req EXCEPT ![s] =
                  [Step(req[s], <<"amend", "commit">>) EXCEPT
                        !.event = AmendedEvent(req[s]), !.wrote = TRUE,
                        !.pc = "ev_notify"]]
    /\ UNCHANGED <<devices, location_history, event_seq,
                   notifications, started, overlapped, completed>>

\* A call of the notification service for an event, whatever became of it
Notification(r, kind) ==
    [kind |-> kind, device_id |-> r.device_id, event_id |-> r.event.id]

\* How a call of send_detection_notification or send_mismatch_alert ends:
\* the message went out; sending failed inside _send_line_notify or
\* _send_email_sync, which log it and return False; or an exception those
\* helpers do not catch came out of the call
NotificationOutcomes == {"sent", "failed", "raised"}

\* Mutant: an exception of the notification service leaves the handler
AfterNotificationRaised_Propagate(r) == Finish(r, 500, "error")

\* except Exception: the error is logged and the handler goes on to return
AfterNotificationRaised(r) == [r EXCEPT !.pc = "ev_return"]

\* receive_event step 5: await send_detection_notification(...); when it
\* returns the mismatch alert follows, when it raises the except clause
\* takes over
receive_event_notify(s) ==
    /\ req[s].pc = "ev_notify"
    /\ \E outcome \in NotificationOutcomes :
         /\ notifications' = Append(notifications,
                                    Notification(req[s], "detection"))
         /\ req' = [req EXCEPT ![s] =
                       IF outcome = "raised"
                       THEN AfterNotificationRaised(Step(req[s], <<"notify">>))
                       ELSE [Step(req[s], <<"notify">>) EXCEPT
                               !.pc = IF req[s].geo.mismatch
                                         THEN "ev_alert" ELSE "ev_return"]]
    /\ UNCHANGED <<devices, location_history, detection_events, event_seq,
                   started, overlapped, completed>>

\* receive_event step 5: await send_mismatch_alert(...) returns or raises
receive_event_alert(s) ==
    /\ req[s].pc = "ev_alert"
    /\ \E outcome \in NotificationOutcomes :
         /\ notifications' = Append(notifications,
                                    Notification(req[s], "mismatch"))
         /\ req' = [req EXCEPT ![s] =
                       IF outcome = "raised"
                       THEN AfterNotificationRaised(Step(req[s], <<"alert">>))
                       ELSE [Step(req[s], <<"alert">>) EXCEPT !.pc = "ev_return"]]
    /\ UNCHANGED <<devices, location_history, detection_events, event_seq,
                   started, overlapped, completed>>

\* receive_event returns DetectionEventResponse: 201
receive_event_return(s) ==
    /\ req[s].pc = "ev_return"
    /\ req' = [req EXCEPT ![s] = Finish(req[s], 201,
                    IF req[s].geo.mismatch THEN "mismatch" ELSE "no mismatch")]
    /\ UNCHANGED <<devices, location_history, detection_events, event_seq,
                   notifications, started, overlapped, completed>>

\* Mutant: only the first item of the batch is added
UploadedEvents_FirstOnly(r, first) ==
    {[id |-> first, device_id |-> r.device_id,
      detection_type |-> r.detection_type, ip_address |-> NULL,
      ip_geolocation_region |-> NULL, distance_from_registered_km |-> NoDistance,
      location_mismatch |-> FALSE]}

\* The DetectionEvent rows upload_logs adds: one per item, no geolocation
UploadedEvents(r, first) ==
    {[id |-> first + k, device_id |-> r.device_id,
      detection_type |-> r.detection_type, ip_address |-> NULL,
      ip_geolocation_region |-> NULL, distance_from_registered_km |-> NoDistance,
      location_mismatch |-> FALSE] : k \in 0..(r.batch - 1)}

\* upload_logs: path id check, suspended check, add_all and commit
upload_logs(s) ==
    /\ req[s].pc = "up_insert"
    /\ LET r == req[s] IN
       IF r.cred_device # r.device_id
         THEN /\ req' = [req EXCEPT ![s] =
                            Finish(Step(r, <<"path_check">>), 403, "device id")]
              /\ UNCHANGED <<detection_events, event_seq>>
       ELSE IF r.dev.status = "suspended"
         THEN /\ req' = [req EXCEPT ![s] =
                            Finish(Step(r, <<"path_check", "status_check">>),
                                   503, "suspended")]
              /\ UNCHANGED <<detection_events, event_seq>>
       ELSE /\ detection_events' =
                    detection_events \cup UploadedEvents(r, event_seq + 1)
            /\ event_seq' = event_seq + r.batch
            /\ req' = [req EXCEPT ![s] =
                          Finish([Step(r, <<"path_check", "status_check",
                                            "persist", "commit">>)
                                     EXCEPT !.wrote = TRUE, !.id = r.batch],
                                 201, "inserted")]
    /\ UNCHANGED <<devices, location_history, notifications, started,
                   overlapped, completed>>

\* Mutant: get_device_status answers without the path id check
AfterStatusCheck_NoPathCheck(r, active_loc) ==
    [Finish(r, 200, r.dev.status) EXCEPT !.active_loc = active_loc]

\* Mutant: get_device_status turns a suspended device away like receive_event
AfterStatusCheck_RejectSuspended(r, active_loc) ==
    IF r.cred_device # r.device_id
        THEN Finish(Step(r, <<"path_check">>), 403, "device id")
    ELSE IF r.dev.status = "suspended"
        THEN Finish(Step(r, <<"path_check", "status_check">>), 503, "suspended")
    ELSE [Finish(Step(r, <<"path_check">>), 200, r.dev.status)
             EXCEPT !.active_loc = active_loc]

\* get_device_status after authentication: path id check, then the response
\* with the status the credential's row has and the active location (the
\* response is what stays in status and active_loc of the finished request)
AfterStatusCheck(r, active_loc) ==
    IF r.cred_device # r.device_id
        THEN Finish(Step(r, <<"path_check">>), 403, "device id")
    ELSE [Finish(Step(r, <<"path_check">>), 200, r.dev.status)
             EXCEPT !.active_loc = active_loc]

get_device_status(s) ==
    /\ req[s].pc = "st_check"
    /\ req' = [req EXCEPT ![s] =
                  AfterStatusCheck(req[s],
                      get_active_location(location_history, req[s].device_id))]
    /\ UNCHANGED <<devices, location_history, detection_events, event_seq,
                   notifications, started, overlapped, completed>>

NextEvent ==
    \/ \E d \in DeviceIds : suspend_device(d)
    \/ \E s \in Slots :
        \/ StartEvent(s)
        \/ get_device_by_api_token(s)
        \/ receive_event_persist(s)
        \/ receive_event_active_location(s)
        \/ receive_event_geolocate(s)
        \/ receive_event_commit(s)
        \/ receive_event_notify(s)
        \/ receive_event_alert(s)
        \/ receive_event_return(s)
        \/ upload_logs(s)
        \/ get_device_status(s)

SpecEvent == InitEvent /\ [][NextEvent]_vars
(***************************************************************************)
(* Event ingestion: claims.                                                *)
(***************************************************************************)
Ingest(s) == req[s].kind \in {"event", "upload"}

StepSet(r) == {r.steps[i] : i \in DOMAIN r.steps}

\* The order of the steps of receive_event
Rank(step) ==
    CASE step = "authenticate" -> 1
      [] step = "path_check" -> 2
      [] step = "status_check" -> 3
      [] step = "persist" -> 4
      [] step = "geolocate" -> 5
      [] step = "amend" -> 6
      [] step = "commit" -> 7
      [] step = "notify" -> 8
      [] step = "alert" -> 9

InOrder(steps) ==
    \A i, j \in DOMAIN steps : i < j => Rank(steps[i]) < Rank(steps[j])

\* C7 as stated: every receive_event or upload_logs request made with the
\* credential of a suspended device is answered 503 and inserts no row.
C7_SuspendedAlways503 ==
    \A s \in Slots :
        (Ingest(s) /\ req[s].pc = "done" /\ req[s].status_seen = "suspended") =>
            (req[s].resp = 503 /\ ~req[s].wrote)

\* C7 amended: a receive_event or upload_logs request whose credential's
\* device is suspended when it authenticates never adds a DetectionEvent,
\* and it is answered 503 when its path device id is that device, 403 when
\* it is another one.
C7_SuspendedRejectedWithoutInsert ==
    \A s \in Slots :
        (Ingest(s) /\ req[s].status_seen = "suspended") =>
            /\ "persist" \notin StepSet(req[s])
            /\ ~req[s].wrote
            /\ req[s].pc = "done" =>
                  req[s].resp = IF req[s].cred_device = req[s].device_id
                                   THEN 503 ELSE 403

\* C7 witness: an event request and an upload-logs request of a suspended
\* device, both for its own path id, were answered 503 and no row exists
C7_Witness ==
    \E s, t \in Slots :
        /\ req[s].kind = "event" /\ req[t].kind = "upload"
        /\ req[s].pc = "done" /\ req[t].pc = "done"
        /\ req[s].status_seen = "suspended" /\ req[t].status_seen = "suspended"
        /\ req[s].cred_device = req[s].device_id
        /\ req[t].cred_device = req[t].device_id
        /\ req[s].resp = 503 /\ req[t].resp = 503
        /\ detection_events = {}

\* C10: a receive_event request takes its steps in the order authenticate,
\* path-id check, suspended check, persist, geolocate, amend, commit, notify;
\* every notification is for a committed event, and an event is persisted
\* only by a request that passed the path-id and suspended checks.
C10_ReceiveEventStepOrder ==
    /\ \A s \in Slots :
          req[s].kind = "event" =>
              /\ InOrder(req[s].steps)
              /\ "persist" \in StepSet(req[s]) =>
                    /\ {"authenticate", "path_check", "status_check"}
                           \subseteq StepSet(req[s])
                    /\ req[s].cred_device = req[s].device_id
                    /\ req[s].status_seen = "active"
              /\ "notify" \in StepSet(req[s]) => "commit" \in StepSet(req[s])
              /\ (req[s].pc = "done" /\ req[s].resp = 201) =>
                    {"authenticate", "path_check", "status_check", "persist",
                     "amend", "commit", "notify"} \subseteq StepSet(req[s])
    /\ \A i \in DOMAIN notifications :
          \E e \in detection_events : e.id = notifications[i].event_id

\* C10 witness: a request went through all eight steps and the mismatch
\* alert, and was answered 201
C10_Witness ==
    \E s \in Slots :
        /\ req[s].kind = "event" /\ req[s].pc = "done" /\ req[s].resp = 201
        /\ req[s].steps = <<"authenticate", "path_check", "status_check",
                            "persist", "geolocate", "amend", "commit",
                            "notify", "alert">>
        /\ \E e \in detection_events : e.id = req[s].id /\ e.location_mismatch

\* The committed row of an event
EventRows(id) == {e \in detection_events : e.id = id}

\* The calls of send_mismatch_alert made for an event
MismatchAlerts(id) ==
    {i \in DOMAIN notifications :
        notifications[i].kind = "mismatch" /\ notifications[i].event_id = id}

FlagText(e) == IF e.location_mismatch THEN "mismatch" ELSE "no mismatch"

\* C11: for every live event answered 201, a mismatch alert was dispatched
\* exactly once when the event's final flag is TRUE (also when its detection
\* notification failed) and never when the flag is FALSE.
C11_MismatchAlertExactlyOncePerMismatch ==
    \A s \in Slots :
        (req[s].kind = "event" /\ req[s].pc = "done" /\ req[s].resp = 201) =>
            \A e \in EventRows(req[s].id) :
                Cardinality(MismatchAlerts(e.id)) =
                    IF e.location_mismatch THEN 1 ELSE 0

\* C12: once receive_event has reached the notification calls, whatever
\* they do, the event's committed row is there and stays as it was
\* committed, and the request ends with 201, the event id and the row's flag.
C12_NotificationFailureNeverSurfaces ==
    /\ [](\A s \in Slots :
            (req[s].kind = "event" /\ "notify" \in StepSet(req[s])) =>
                /\ Cardinality(EventRows(req[s].id)) = 1
                /\ req[s].pc # "done" => req[s].event \in detection_events
                /\ req[s].pc = "done" =>
                      /\ req[s].resp = 201
                      /\ \A e \in EventRows(req[s].id) : req[s].body = FlagText(e))
    /\ [][detection_events \subseteq detection_events']_vars

\* C12 witness: a request whose event has the flag TRUE was answered 201
\* although send_detection_notification raised (no alert call followed)
C12_Witness ==
    \E s \in Slots :
        /\ req[s].kind = "event" /\ req[s].pc = "done" /\ req[s].resp = 201
        /\ req[s].body = "mismatch"
        /\ \E e \in EventRows(req[s].id) : e.location_mismatch
        /\ MismatchAlerts(req[s].id) = {}

\* C13: the response of receive_event does not wait for the notification
\* calls: once the event is committed the handler can return, whether or
\* not send_detection_notification and send_mismatch_alert have finished.
C13_ResponseDoesNotWaitForNotification ==
    \A s \in Slots :
        req[s].pc \in {"ev_notify", "ev_alert"} => ENABLED receive_event_return(s)

\* C14: no outcome of the geolocation lookup ends the request: after the
\* lookup the handler always goes on to the commit.
C14_GeolocationFailureNeverFailsRequest ==
    [][\A s \in Slots : req[s].pc = "ev_geo" => req'[s].pc # "done"]_vars

(***************************************************************************)
(* check_location_mismatch as a function of its inputs                     *)
(* (services/geolocation_service.py).                                      *)
(***************************************************************************)
MismatchRegions == {"", "Nagano", "Tokyo"}
MismatchKms == {0, 149, 150, 151, 212}
MismatchGeos ==
    [available : BOOLEAN, region : MismatchRegions, km : MismatchKms]

\* Each slot holds one call with its arguments: the registered region and
\* what get_geolocation answers for the event IP, at km from the registered
\* coordinates
InitMismatch ==
    /\ devices = BoundDevices
    /\ location_history = <<>>
    /\ detection_events = {}
    /\ event_seq = 0
    /\ notifications = <<>>
    /\ req \in [Slots -> {[Idle EXCEPT !.kind = "check", !.pc = "check",
                              !.args = [registered_region |-> rr, geo |-> g]] :
                          rr \in MismatchRegions, g \in MismatchGeos}]
    /\ started = 0
    /\ overlapped = [d \in DeviceIds |-> FALSE]
    /\ completed = [d \in DeviceIds |-> 0]

call_check_location_mismatch(s) ==
    /\ req[s].pc = "check"
    /\ req' = [req EXCEPT ![s].pc = "done",
                          ![s].geo = check_location_mismatch(
                                        req[s].args.registered_region,
                                        req[s].args.geo)]
    /\ UNCHANGED <<devices, location_history, detection_events, event_seq,
                   notifications, started, overlapped, completed>>

NextMismatch == \E s \in Slots : call_check_location_mismatch(s)

SpecMismatch == InitMismatch /\ [][NextMismatch]_vars

Checked(s) == req[s].kind = "check" /\ req[s].pc = "done"

\* C15: when geolocation is unavailable check_location_mismatch returns no
\* mismatch, no distance and an empty region, whatever the registered
\* region and the distance of the registered coordinates are.
C15_UnavailableGeolocationIsNoMismatch ==
    \A s \in Slots :
        (Checked(s) /\ ~req[s].args.geo.available) =>
            /\ ~req[s].geo.mismatch
            /\ req[s].geo.distance_km = NoDistance
            /\ req[s].geo.event_region = ""

\* C15 witness: a call with geolocation unavailable whose arguments would
\* otherwise be a mismatch on both counts has returned
C15_Witness ==
    \E s \in Slots :
        /\ Checked(s) /\ ~req[s].args.geo.available
        /\ req[s].args.geo.km = 212
        /\ req[s].args.registered_region = "Nagano"
        /\ req[s].args.geo.region = "Tokyo"
        /\ ~req[s].geo.mismatch

\* C16: when geolocation is available the verdict is a mismatch exactly when
\* the distance is at least the threshold, or both regions are non-empty and
\* differ; an empty region on either side never triggers.
C16_MismatchIffDistanceOrRegion ==
    \A s \in Slots :
        (Checked(s) /\ req[s].args.geo.available) =>
            LET rr == req[s].args.registered_region
                g == req[s].args.geo
            IN /\ req[s].geo.mismatch <=>
                    \/ g.km >= LOCATION_MISMATCH_THRESHOLD_KM
                    \/ (rr # "" /\ g.region # "" /\ rr # g.region)
               /\ (g.km < LOCATION_MISMATCH_THRESHOLD_KM
                     /\ (rr = "" \/ g.region = "")) => ~req[s].geo.mismatch
               /\ req[s].geo.distance_km = g.km
               /\ req[s].geo.event_region = g.region

\* C16 witness: calls have returned a mismatch at exactly the threshold with
\* equal regions, and no mismatch just under it with an empty registered region
C16_Witness ==
    \E s, t \in Slots :
        /\ Checked(s) /\ req[s].args.geo.available
        /\ req[s].args.geo.km = LOCATION_MISMATCH_THRESHOLD_KM
        /\ req[s].args.registered_region = req[s].args.geo.region
        /\ req[s].geo.mismatch
        /\ Checked(t) /\ req[t].args.geo.available
        /\ req[t].args.geo.km = 149
        /\ req[t].args.registered_region = "" /\ req[t].args.geo.region = "Tokyo"
        /\ ~req[t].geo.mismatch

(***************************************************************************)
(* Event ingestion: further claims (checked under SpecEvent).              *)
(***************************************************************************)
\* C17: an upload_logs request with K >= 1 items made by an active device
\* for its own path id adds exactly K rows in its one commit, each with
\* location_mismatch FALSE and no distance or region, answers 201 with
\* inserted = K, and does no geolocation lookup and no notification.
C17_UploadInsertsExactlyKUnflaggedRows ==
    [][\A s \in Slots :
          (/\ req[s].kind = "upload" /\ req[s].pc = "up_insert"
           /\ req[s].cred_device = req[s].device_id
           /\ req[s].status_seen = "active" /\ req[s].batch >= 1
           /\ req'[s] # req[s]) =>
              LET new == detection_events' \ detection_events IN
              /\ Cardinality(new) = req[s].batch
              /\ detection_events \subseteq detection_events'
              /\ \A e \in new : /\ e.device_id = req[s].device_id
                                /\ ~e.location_mismatch
                                /\ e.distance_from_registered_km = NoDistance
                                /\ e.ip_geolocation_region = NULL
              /\ req'[s].pc = "done" /\ req'[s].resp = 201
              /\ req'[s].id = req[s].batch
              /\ "geolocate" \notin StepSet(req'[s])
              /\ notifications' = notifications]_vars

\* C17 witness: an upload of MaxBatch items was answered 201 and the table
\* holds MaxBatch rows of that device
C17_Witness ==
    \E s \in Slots :
        /\ req[s].kind = "upload" /\ req[s].pc = "done" /\ req[s].resp = 201
        /\ req[s].id = MaxBatch
        /\ Cardinality({e \in detection_events :
                           e.device_id = req[s].device_id}) = MaxBatch

\* C18: when the device has no active location or the request has no origin
\* IP, receive_event does not run the mismatch evaluator and the event is
\* stored with location_mismatch FALSE, no distance and no region.
C18_NoLocationOrNoIpIsNoMismatch ==
    /\ \A s \in Slots :
          (/\ req[s].kind = "event"
           /\ req[s].pc \in {"ev_commit", "ev_notify", "ev_alert", "ev_return"}
           /\ (req[s].active_loc = NoLocation \/ req[s].ip = NULL)) =>
              /\ "geolocate" \notin StepSet(req[s])
              /\ ~req[s].geo.mismatch
              /\ req[s].geo.distance_km = NoDistance
    /\ \A e \in detection_events :
          (\/ e.ip_address = NULL
           \/ get_active_location(location_history, e.device_id) = NoLocation) =>
              /\ ~e.location_mismatch
              /\ e.distance_from_registered_km = NoDistance
              /\ e.ip_geolocation_region = NULL

\* C18 witness: events are committed for a request without IP of the device
\* that has a location, and for a request with IP of the device that has none
C18_Witness ==
    \E e, f \in detection_events :
        /\ e.device_id = 1 /\ e.ip_address = NULL
        /\ get_active_location(location_history, 1) # NoLocation
        /\ f.device_id = 2 /\ f.ip_address # NULL
        /\ get_active_location(location_history, 2) = NoLocation

\* C19: the flushed event is not in the committed table until the commit
\* that carries the amended values, a request that failed before its commit
\* leaves no row, and a committed row is never changed afterwards.
C19_InsertAndAmendAreOneTransaction ==
    /\ [](\A s \in Slots :
            (/\ req[s].kind = "event"
             /\ "persist" \in StepSet(req[s])
             /\ "commit" \notin StepSet(req[s])) => EventRows(req[s].id) = {})
    /\ [][\A s \in Slots :
            (req[s].pc = "ev_commit" /\ req'[s].pc = "ev_notify") =>
                detection_events' = detection_events \cup {AmendedEvent(req[s])}]_vars
    /\ [][\A e \in detection_events : e \in detection_events']_vars

\* C19 witness: a request that had flushed its event failed in the
\* geolocation step and no row of that event exists
C19_Witness ==
    \E s \in Slots :
        /\ req[s].kind = "event" /\ req[s].pc = "done" /\ req[s].resp = 500
        /\ "persist" \in StepSet(req[s]) /\ req[s].id # 0
        /\ EventRows(req[s].id) = {}

\* C20: a receive_event, get_device_status or upload_logs request whose path
\* device id is not the device of its api_token is answered 403 and writes
\* nothing, whether that device is active or suspended.
C20_PathMismatchIs403WithoutWrite ==
    \A s \in Slots :
        (/\ req[s].kind \in {"event", "upload", "status"}
         /\ req[s].cred_device # 0
         /\ req[s].cred_device # req[s].device_id) =>
            /\ ~req[s].wrote
            /\ "persist" \notin StepSet(req[s])
            /\ EventRows(req[s].id) = {}
            /\ req[s].pc = "done" => req[s].resp = 403

\* C20 witness: a status request and an upload made with the token of a
\* suspended device for the other device's path were both answered 403
C20_Witness ==
    \E s, t \in Slots :
        /\ req[s].kind = "status" /\ req[t].kind = "upload"
        /\ req[s].pc = "done" /\ req[t].pc = "done"
        /\ req[s].status_seen = "suspended" /\ req[t].status_seen = "suspended"
        /\ req[s].cred_device # req[s].device_id
        /\ req[t].cred_device # req[t].device_id
        /\ req[s].resp = 403 /\ req[t].resp = 403
        /\ detection_events = {}

(***************************************************************************)
(* Owner-only operations: claims (checked under SpecLocation).             *)
(***************************************************************************)
OwnerOp(s) == req[s].kind \in {"setup", "location", "relocate"}

IsOwner(s) == /\ devices[req[s].device_id].exists
              /\ devices[req[s].device_id].owner_user_id = req[s].user

PasswordOk(s) == req[s].password = (IF req[s].user = "U1" THEN "pw-U1" ELSE "pw-U2")

\* C22: a relocate request by the owner with a wrong password is answered
\* 401 in the step that checks it, without any change of location_history,
\* and a relocate request reaches register_location only with the right
\* password.
C22_RelocateChecksPasswordBeforeWrite ==
    /\ [][\A s \in Slots :
            (/\ req[s].kind = "relocate" /\ req[s].pc = "loc_owner"
             /\ IsOwner(s) /\ ~PasswordOk(s)
             /\ req'[s] # req[s]) =>
                /\ req'[s].pc = "done" /\ req'[s].resp = 401
                /\ ~req'[s].wrote
                /\ location_history' = location_history]_vars
    /\ [](\A s \in Slots :
            (req[s].kind = "relocate"
             /\ req[s].pc \in {"loc_update", "loc_wait", "loc_commit"}) =>
                PasswordOk(s))

\* C22 witness: the owner of a device with an active location was answered
\* 401 by relocate and the active row is the one it was
C22_Witness ==
    \E s \in Slots :
        /\ req[s].kind = "relocate" /\ req[s].pc = "done" /\ req[s].resp = 401
        /\ IsOwner(s)
        /\ Len(location_history) = 1
        /\ ActiveIds(location_history, req[s].device_id) = {1}

\* C23: setup, location and relocate succeed only for the device's owner;
\* a caller who is not the owner, and any caller of an unbound or absent
\* device, is answered 404 in the first step, which changes neither the
\* devices table nor location_history.
C23_OnlyOwnerSucceeds ==
    /\ [](\A s \in Slots :
            (OwnerOp(s) /\ req[s].pc = "done") =>
                /\ req[s].resp \in {200, 201} => IsOwner(s)
                /\ ~IsOwner(s) => (req[s].resp = 404 /\ ~req[s].wrote))
    /\ [][\A s \in Slots :
            (OwnerOp(s) /\ req[s].pc = "loc_owner" /\ ~IsOwner(s)
             /\ req'[s] # req[s]) =>
                /\ req'[s].pc = "done" /\ req'[s].resp = 404
                /\ devices' = devices
                /\ location_history' = location_history]_vars

\* C23 witness: setup by another user of a bound device and relocate for a
\* device without owner were both answered 404
C23_Witness ==
    \E s, t \in Slots :
        /\ req[s].kind = "setup" /\ req[s].pc = "done" /\ req[s].resp = 404
        /\ devices[req[s].device_id].owner_user_id \in Users \ {req[s].user}
        /\ req[t].kind = "relocate" /\ req[t].pc = "done" /\ req[t].resp = 404
        /\ devices[req[t].device_id].owner_user_id = NULL

\* C24: a POST /location or POST /relocate that has passed the owner check
\* (and the password check) never fails: it ends with 201 and a new active
\* row of the device.
C24_OwnerRegistrationNeverFails ==
    [][\A s \in Slots :
          (req[s].pc \in {"loc_update", "loc_wait", "loc_commit"}
           /\ req'[s].pc = "done") =>
              /\ req'[s].resp = 201
              /\ Len(location_history') = Len(location_history) + 1
              /\ location_history'[Len(location_history')].active_flag]_vars

(***************************************************************************)
(* Status check: claim (checked under SpecEvent).                          *)
(***************************************************************************)
\* C21: get_device_status changes no table, and a request with the
\* device's own credential succeeds whatever the device's status is,
\* answering that status (suspended for a suspended device) and the
\* device's active location or none.
C21_StatusCheckIsReadOnlyAndOpenToSuspended ==
    /\ [](\A s \in Slots :
            (/\ req[s].kind = "status" /\ req[s].pc = "done"
             /\ req[s].cred_device = req[s].device_id) =>
                /\ req[s].resp = 200
                /\ req[s].body = req[s].status_seen
                /\ req[s].active_loc =
                       get_active_location(location_history, req[s].device_id)
                /\ ~req[s].wrote)
    /\ [][\A s \in Slots :
            (req[s].pc = "st_check" /\ req'[s] # req[s]) =>
                /\ devices' = devices
                /\ location_history' = location_history
                /\ detection_events' = detection_events
                /\ event_seq' = event_seq
                /\ notifications' = notifications]_vars

\* C21 witness: both suspended devices asked for their status and were told
\* suspended, one with its active location and one without any
C21_Witness ==
    \E s, t \in Slots :
        /\ req[s].kind = "status" /\ req[t].kind = "status"
        /\ req[s].pc = "done" /\ req[t].pc = "done"
        /\ req[s].resp = 200 /\ req[t].resp = 200
        /\ req[s].body = "suspended" /\ req[t].body = "suspended"
        /\ devices[req[s].device_id].status = "suspended"
        /\ devices[req[t].device_id].status = "suspended"
        /\ req[s].active_loc # NoLocation
        /\ req[t].active_loc = NoLocation

(***************************************************************************)
(* Detection types of ingested events (schemas.py DetectionEventRequest,   *)
(* OfflineEventItem; lte_sender.send_to_jr_api).  Requests are made by a   *)
(* device with its own credential and without an observed origin IP.       *)
(***************************************************************************)
\* The enumerated detection types
DetectionTypes == {"bear", "human", "vehicle", "unknown"}

\* What clients send: send_to_jr_api sends "bear" or "other"
DetectionTypeInputs == {"bear", "unknown", "other"}

\* detection_type: str, without validator: the schema takes every string
AcceptsDetectionType(detection_type) == detection_type \in STRING

StartTypedEvent(s) ==
    /\ Free(s) /\ started < MaxEvStarts
    /\ \E d \in DeviceIds, t \in DetectionTypeInputs :
         IF ~AcceptsDetectionType(t)
         THEN req' = [req EXCEPT ![s] =
                        Finish([Idle EXCEPT !.kind = "event", !.device_id = d],
                               422, "detection_type")]
         ELSE \/ req' = [req EXCEPT ![s] = [Idle EXCEPT !.kind = "event",
                           !.pc = "ev_auth", !.device_id = d,
                           !.token = _generate_api_token(d),
                           !.detection_type = t]]
              \/ \E k \in 1..MaxBatch :
                   req' = [req EXCEPT ![s] = [Idle EXCEPT !.kind = "upload",
                           !.pc = "ev_auth", !.device_id = d,
                           !.token = _generate_api_token(d),
                           !.batch = k, !.detection_type = t]]
    /\ started' = started + 1
    /\ UNCHANGED <<devices, location_history, detection_events, event_seq,
                   notifications, overlapped, completed>>

NextEventTypes ==
    \E s \in Slots :
        \/ StartTypedEvent(s)
        \/ get_device_by_api_token(s)
        \/ receive_event_persist(s)
        \/ receive_event_active_location(s)
        \/ receive_event_commit(s)
        \/ receive_event_notify(s)
        \/ receive_event_return(s)
        \/ upload_logs(s)

SpecEventTypes == InitEvent /\ [][NextEventTypes]_vars

\* C25: every stored DetectionEvent has a detection type of the enumerated
\* set, and a request with another detection type is answered with an error
\* and stores nothing.
C25_StoredDetectionTypesAreEnumerated ==
    \A e \in detection_events : e.detection_type \in DetectionTypes

(***************************************************************************)
(* Device side: the setup URL of the QR code (device/scripts/generate_qr.py*)
(* and generate_device_id.py) and its verification by the server.  Texts   *)
(* are sequences of characters.  A hex digest is HexWidth characters wide  *)
(* here; Sha256Hex16 has no collision and no fixed point on the values     *)
(* used, as is assumed of the truncated SHA-256.                           *)
(***************************************************************************)
HexDigits ==
    <<"0", "1", "2", "3", "4", "5", "6", "7",
      "8", "9", "a", "b", "c", "d", "e", "f">>

HexWidth == 2

RECURSIVE Pow16(_)
Pow16(n) == IF n = 0 THEN 1 ELSE 16 * Pow16(n - 1)

\* hexdigest()[:16] as text, lower-case hex digits
hexdigest(n) ==
    [i \in 1..HexWidth |-> HexDigits[((n \div Pow16(HexWidth - i)) % 16) + 1]]

\* The fth value a text of hex digits stands for; a text that is no hex
\* digest stands for the non-ASCII fth, which no digest equals
RECURSIVE HexValue(_)
HexValue(text) ==
    IF text = <<>> THEN 0
    ELSE (HexValue(SubSeq(text, 1, Len(text) - 1)) * 16)
         + ((CHOOSE v \in 1..16 : HexDigits[v] = text[Len(text)]) - 1)

FthOfText(text) ==
    IF Len(text) = HexWidth /\ \A i \in 1..Len(text) :
                                  \E v \in 1..16 : HexDigits[v] = text[i]
    THEN HexValue(text) ELSE NonAsciiFth

\* device_id = f"LJ-{cpu_serial_last8}-{random4}", upper-case letters and digits
DeviceIdText(d) == <<"L", "J", "-", "A", HexDigits[d + 1], "-", "7">>

\* Values of os.environ["FACTORY_SECRET"] on a device
DeviceSecrets == {FACTORY_SECRET, FACTORY_SECRET + 1}

SETUP_BASE_URL ==
    <<"h", "t", "t", "p", "s", ":", "/", "/", "l", "e", "o", "n", "a",
    "r", "d", "o", "-", "j", "r", "-", "a", "p", "i", ".", "o", "n", "r",
    "e", "n", "d", "e", "r", ".", "c", "o", "m", "/", "s", "e", "t", "u",
    "p">>

derive_factory_token(device_id, secret) == Sha256Hex16((device_id * 16) + secret)

derive_factory_token_hash(factory_token) == Sha256Hex16(factory_token)

\* Mutant: the URL carries the factory token itself
build_setup_url_EmbedsToken(device_id, secret) ==
    SETUP_BASE_URL
      \o <<"?", "d", "e", "v", "i", "c", "e", "_", "i", "d", "=">> \o DeviceIdText(device_id)
      \o <<"&", "f", "t", "h", "=">> \o hexdigest(derive_factory_token(device_id, secret))

\* f"{SETUP_BASE_URL}?device_id={device_id}&fth={fth}"
build_setup_url(device_id, secret) ==
    SETUP_BASE_URL
      \o <<"?", "d", "e", "v", "i", "c", "e", "_", "i", "d", "=">> \o DeviceIdText(device_id)
      \o <<"&", "f", "t", "h", "=">>
      \o hexdigest(derive_factory_token_hash(derive_factory_token(device_id, secret)))

Find(text, c) ==
    IF \E i \in 1..Len(text) : text[i] = c
    THEN CHOOSE i \in 1..Len(text) :
             text[i] = c /\ \A j \in 1..(i - 1) : text[j] # c
    ELSE 0

Before(text, c) ==
    IF Find(text, c) = 0 THEN text ELSE SubSeq(text, 1, Find(text, c) - 1)

After(text, c) ==
    IF Find(text, c) = 0 THEN <<>> ELSE SubSeq(text, Find(text, c) + 1, Len(text))

RECURSIVE Split(_, _)
Split(text, c) ==
    IF Find(text, c) = 0 THEN <<text>>
    ELSE <<Before(text, c)>> \o Split(After(text, c), c)

\* urllib.parse: the query of the URL as a sequence of <<name, value>>
parse_qs(url) ==
    LET parts == Split(After(url, "?"), "&")
    IN [i \in 1..Len(parts) |-> <<Before(parts[i], "="), After(parts[i], "=")>>]

QueryValue(url, name) ==
    LET q == parse_qs(url)
    IN IF \E i \in 1..Len(q) : q[i][1] = name
       THEN q[CHOOSE i \in 1..Len(q) : q[i][1] = name][2]
       ELSE <<>>

IsSubstring(needle, text) ==
    \E i \in 1..(Len(text) - Len(needle) + 1) :
        SubSeq(text, i, i + Len(needle) - 1) = needle

\* Each slot holds one device that builds its URL with its secret, and the
\* device id under which the server is then asked to verify the URL's fth
InitSetupUrl ==
    /\ devices = [d \in DeviceIds |-> NoRow]
    /\ location_history = <<>>
    /\ detection_events = {}
    /\ event_seq = 0
    /\ notifications = <<>>
    /\ req \in [Slots -> {[Idle EXCEPT !.kind = "qr", !.pc = "qr_build",
                              !.device_id = d,
                              !.args = [secret |-> k, verify_as |-> v]] :
                          d \in DeviceIds, k \in DeviceSecrets, v \in DeviceIds}]
    /\ started = 0
    /\ overlapped = [d \in DeviceIds |-> FALSE]
    /\ completed = [d \in DeviceIds |-> 0]

call_build_setup_url(s) ==
    /\ req[s].pc = "qr_build"
    /\ req' = [req EXCEPT ![s].pc = "qr_verify",
                          ![s].body = build_setup_url(req[s].device_id,
                                                      req[s].args.secret)]
    /\ UNCHANGED <<devices, location_history, detection_events, event_seq,
                   notifications, started, overlapped, completed>>

\* The server verifies the fth query parameter of the URL: TypeError when
\* compare_digest raises, else the verdict
call_verify_factory_token_hash(s) ==
    /\ req[s].pc = "qr_verify"
    /\ LET fth == FthOfText(QueryValue(req[s].body, <<"f", "t", "h">>))
       IN req' = [req EXCEPT ![s].pc = "done", ![s].fth = fth,
                    ![s].resp = IF CompareDigestRaises(fth) THEN "TypeError"
                                ELSE verify_factory_token_hash(
                                         req[s].args.verify_as, fth)]
    /\ UNCHANGED <<devices, location_history, detection_events, event_seq,
                   notifications, started, overlapped, completed>>

NextSetupUrl ==
    \E s \in Slots :
        \/ call_build_setup_url(s)
        \/ call_verify_factory_token_hash(s)

SpecSetupUrl == InitSetupUrl /\ [][NextSetupUrl]_vars

UrlBuilt(s) == req[s].kind = "qr" /\ req[s].pc \in {"qr_verify", "done"}

UrlVerified(s) == req[s].kind = "qr" /\ req[s].pc = "done"

\* C26: with the shared secret, the server accepts the fth a device built
\* exactly when it verifies it under that device's own id: true for the same
\* device id, false for the fth built for another device id.
C26_ServerAcceptsExactlyTheDeviceBuiltFth ==
    \A s \in Slots :
        (UrlVerified(s) /\ req[s].args.secret = FACTORY_SECRET) =>
            req[s].resp = (req[s].args.verify_as = req[s].device_id)

\* C26 witness: with the shared secret one URL has been accepted under its
\* own device id and another has been refused under a different device id
C26_Witness ==
    /\ UrlVerified(1) /\ req[1].args.secret = FACTORY_SECRET
    /\ req[1].args.verify_as = req[1].device_id /\ req[1].resp = TRUE
    /\ UrlVerified(2) /\ req[2].args.secret = FACTORY_SECRET
    /\ req[2].args.verify_as # req[2].device_id /\ req[2].resp = FALSE

\* C27: the setup URL built for a device has exactly the query parameters
\* device_id and fth, device_id is the device's id, fth is the hash of the
\* device's factory token, and the factory token is no substring of the URL.
C27_SetupUrlCarriesOnlyDeviceIdAndFth ==
    \A s \in Slots :
        UrlBuilt(s) =>
            LET url == req[s].body
                token == derive_factory_token(req[s].device_id, req[s].args.secret)
            IN /\ Len(parse_qs(url)) = 2
               /\ parse_qs(url)[1][1] = <<"d", "e", "v", "i", "c", "e", "_", "i", "d">>
               /\ parse_qs(url)[1][2] = DeviceIdText(req[s].device_id)
               /\ parse_qs(url)[2][1] = <<"f", "t", "h">>
               /\ parse_qs(url)[2][2] = hexdigest(derive_factory_token_hash(token))
               /\ Before(url, "?") = SETUP_BASE_URL
               /\ ~IsSubstring(hexdigest(token), url)

\* C27 witness: both slots hold a built URL, for different devices
C27_Witness ==
    /\ UrlBuilt(1) /\ UrlBuilt(2)
    /\ req[1].device_id # req[2].device_id
    /\ req[1].body # req[2].body

(***************************************************************************)
(* The accuracy advisory of register_location (location_service.py).       *)
(* An accuracy is a number of tenths of a metre; a text is a sequence of   *)
(* pieces, the digits of a number being one character each.                *)
(***************************************************************************)
_ACCURACY_WARN_M == 50
_ACCURACY_ALERT_M == 100

\* accuracy is None
NoAccuracy == -1

\* No warning is returned
NoWarning == <<>>

\* Accuracies around both thresholds and around the halves
AccuracyInputs ==
    {NoAccuracy, 0, 300, 499, 500, 501, 505, 510, 515, 999, 1000, 1001, 1005,
     1010, 1500}

Digits == <<"0", "1", "2", "3", "4", "5", "6", "7", "8", "9">>

\* The decimal digits of a natural number
RECURSIVE Decimal(_)
Decimal(n) ==
    IF n < 10 THEN <<Digits[n + 1]>>
    ELSE Decimal(n \div 10) \o <<Digits[(n % 10) + 1]>>

\* f"{accuracy:.0f}": the nearest whole number of metres, a half going to
\* the even neighbour
FormatF0(accuracy) ==
    LET whole == accuracy \div 10
        tenths == accuracy % 10
    IN Decimal(IF tenths > 5 \/ (tenths = 5 /\ whole % 2 = 1)
               THEN whole + 1 ELSE whole)

StrongHead == <<"GPS accuracy is low (">>
StrongTail == <<"m", "). Acquiring it again at a place with better accuracy is recommended.">>
MildHead == <<"GPS accuracy is ">>
MildTail == <<"m", ". Registration at ", "5", "0", "m", " or less is recommended.">>

\* Mutant: the mild warning begins at the threshold itself
_build_accuracy_warning_WarnAtThreshold(accuracy) ==
    IF accuracy = NoAccuracy THEN NoWarning
    ELSE IF accuracy > _ACCURACY_ALERT_M * 10
         THEN StrongHead \o FormatF0(accuracy) \o StrongTail
    ELSE IF accuracy >= _ACCURACY_WARN_M * 10
         THEN MildHead \o FormatF0(accuracy) \o MildTail
    ELSE NoWarning

_build_accuracy_warning(accuracy) ==
    IF accuracy = NoAccuracy THEN NoWarning
    ELSE IF accuracy > _ACCURACY_ALERT_M * 10
         THEN StrongHead \o FormatF0(accuracy) \o StrongTail
    ELSE IF accuracy > _ACCURACY_WARN_M * 10
         THEN MildHead \o FormatF0(accuracy) \o MildTail
    ELSE NoWarning

InitAccuracy ==
    /\ devices = BoundDevices
    /\ location_history = <<>>
    /\ detection_events = {}
    /\ event_seq = 0
    /\ notifications = <<>>
    /\ req \in [Slots -> {[Idle EXCEPT !.kind = "warning", !.pc = "warning",
                              !.args = [accuracy |-> a]] : a \in AccuracyInputs}]
    /\ started = 0
    /\ overlapped = [d \in DeviceIds |-> FALSE]
    /\ completed = [d \in DeviceIds |-> 0]

call_build_accuracy_warning(s) ==
    /\ req[s].pc = "warning"
    /\ req' = [req EXCEPT ![s].pc = "done",
                          ![s].body = _build_accuracy_warning(req[s].args.accuracy)]
    /\ UNCHANGED <<devices, location_history, detection_events, event_seq,
                   notifications, started, overlapped, completed>>

NextAccuracy == \E s \in Slots : call_build_accuracy_warning(s)

SpecAccuracy == InitAccuracy /\ [][NextAccuracy]_vars

Warned(s) == req[s].kind = "warning" /\ req[s].pc = "done"

IsStrong(text) ==
    Len(text) > Len(StrongHead) /\ SubSeq(text, 1, Len(StrongHead)) = StrongHead

IsMild(text) ==
    Len(text) > Len(MildHead) /\ SubSeq(text, 1, Len(MildHead)) = MildHead

\* The number as it is written out in full: the metres and, when there are
\* any, the tenths
Written(accuracy) ==
    IF accuracy % 10 = 0 THEN Decimal(accuracy \div 10)
    ELSE Decimal(accuracy \div 10) \o <<".", Digits[(accuracy % 10) + 1]>>

Thresholds(s) ==
    LET a == req[s].args.accuracy
        text == req[s].body
    IN /\ (a = NoAccuracy \/ a <= 500) <=> text = NoWarning
       /\ (a > 500 /\ a <= 1000) <=> IsMild(text)
       /\ a > 1000 <=> IsStrong(text)

\* C28 as stated: no warning when accuracy is absent or <= 50 m, the mild
\* warning for 50 m < accuracy <= 100 m, the strong one above 100 m, and
\* every warning text embeds the accuracy itself.
C28_WarningEmbedsTheAccuracy ==
    \A s \in Slots :
        Warned(s) =>
            /\ Thresholds(s)
            /\ req[s].body # NoWarning =>
                   IsSubstring(Written(req[s].args.accuracy) \o <<"m">>, req[s].body)

\* C28 amended: the same thresholds, and every warning text embeds the
\* accuracy rounded to the nearest whole metre, a half going to the even
\* neighbour: the whole number n with |n - accuracy| <= 0.5.
C28_WarningEmbedsTheRoundedAccuracy ==
    \A s \in Slots :
        Warned(s) =>
            LET a == req[s].args.accuracy
                text == req[s].body
            IN /\ Thresholds(s)
               /\ text # NoWarning =>
                    \E n \in 0..200 :
                        /\ (10 * n) - a \in -5..5
                        /\ ((10 * n) - a \in {-5, 5} => n % 2 = 0)
                        /\ \/ text = StrongHead \o Decimal(n) \o StrongTail
                           \/ text = MildHead \o Decimal(n) \o MildTail

\* C28 witness: the calls have returned for 50.1 m, with the mild warning
\* that says 50m, and for 100.5 m, with the strong warning that says 100m
C28_Witness ==
    /\ Warned(1) /\ req[1].args.accuracy = 501
    /\ req[1].body = MildHead \o <<"5", "0">> \o MildTail
    /\ Warned(2) /\ req[2].args.accuracy = 1005
    /\ req[2].body = StrongHead \o <<"1", "0", "0">> \o StrongTail

(***************************************************************************)
(* Device side: one LTE transmission of a detection (lte_sender.py).       *)
(* The first slot is the device running send_event_with_lte; steps is the  *)
(* log of the calls it has made, in order, with what each one gave.        *)
(***************************************************************************)
MAX_RETRY == 3
SIGNAL_SKIP_THRESHOLD == 40

\* get_signal_quality: None, or a percentage
NoSignal == -1
SignalInputs == {NoSignal, 0, SIGNAL_SKIP_THRESHOLD, SIGNAL_SKIP_THRESHOLD + 1}

\* What one session.post gives: a response with a status code, or an exception
PostOutcomes == {"200", "201", "401", "ConnectionError", "Timeout"}

Call(r, name, result) ==
    [r EXCEPT !.steps = Append(@, [call |-> name, result |-> result])]

InitLte ==
    /\ devices = BoundDevices
    /\ location_history = <<>>
    /\ detection_events = {}
    /\ event_seq = 0
    /\ notifications = <<>>
    /\ \E p \in BOOLEAN, q \in BOOLEAN :
         req = [s \in Slots |->
                  IF s = 1
                  THEN [Idle EXCEPT !.kind = "lte", !.pc = "lte_modem",
                                    !.args = [inference_pause |-> p,
                                              inference_resume |-> q]]
                  ELSE Idle]
    /\ started = 0
    /\ overlapped = [d \in DeviceIds |-> FALSE]
    /\ completed = [d \in DeviceIds |-> 0]

LteUnchanged ==
    UNCHANGED <<devices, location_history, detection_events, event_seq,
                notifications, started, overlapped, completed>>

\* An exception leaves the try body for the except clause
Raised(r, name) == [Call(r, name, "raise") EXCEPT !.pc = "lte_except"]

\* Mutant: return False without queueing the event
SaveAndReturnFalse_NotSaved(r) ==
    {[r EXCEPT !.pc = "lte_finally", !.resp = FALSE]}

\* save_to_local_queue(...); return False: the finally clause is next.
\* save_to_local_queue handles OSError itself; anything else propagates.
SaveAndReturnFalse(r) ==
    {[Call(r, "save_to_local_queue", "returned") EXCEPT !.pc = "lte_finally",
                                                         !.resp = FALSE],
     Raised(r, "save_to_local_queue")}

\* [1] modem_index = get_modem_index()
lte_get_modem_index(s) ==
    /\ req[s].pc = "lte_modem"
    /\ \/ req' = [req EXCEPT ![s] =
                    [Call(req[s], "get_modem_index", "index")
                        EXCEPT !.pc = "lte_signal", !.id = 1]]
       \/ \E r \in SaveAndReturnFalse(Call(req[s], "get_modem_index", "None")) :
              req' = [req EXCEPT ![s] = r]
       \/ req' = [req EXCEPT ![s] = Raised(req[s], "get_modem_index")]
    /\ LteUnchanged

\* Mutant: a signal of 0 skips too
SignalSkips_ZeroSkips(signal) ==
    signal # NoSignal /\ signal <= SIGNAL_SKIP_THRESHOLD

\* signal is not None and signal > 0 and signal <= SIGNAL_SKIP_THRESHOLD
SignalSkips(signal) ==
    signal # NoSignal /\ signal > 0 /\ signal <= SIGNAL_SKIP_THRESHOLD

\* [2] the signal check: skipped for a known, non-zero signal at or under
\* the threshold.  The signal read stays in lat until inference_pause or
\* the end of the run.
lte_get_signal_quality(s) ==
    /\ req[s].pc = "lte_signal"
    /\ \/ \E signal \in SignalInputs :
            IF SignalSkips(signal)
            THEN \E r \in SaveAndReturnFalse(
                            Call(req[s], "get_signal_quality", "skip")) :
                     req' = [req EXCEPT ![s] = [r EXCEPT !.lat = signal]]
            ELSE req' = [req EXCEPT ![s] =
                           [Call(req[s], "get_signal_quality", "ok")
                               EXCEPT !.pc = "lte_pause", !.lat = signal]]
       \/ req' = [req EXCEPT ![s] = Raised(req[s], "get_signal_quality")]
    /\ LteUnchanged

\* [3] if inference_pause: inference_pause()
lte_inference_pause(s) ==
    /\ req[s].pc = "lte_pause"
    /\ IF req[s].args.inference_pause
       THEN \/ req' = [req EXCEPT ![s] =
                         [Call(req[s], "inference_pause", "ok")
                             EXCEPT !.pc = "lte_enable", !.lat = 0]]
            \/ req' = [req EXCEPT ![s] =
                         [Raised(req[s], "inference_pause") EXCEPT !.lat = 0]]
       ELSE req' = [req EXCEPT ![s].pc = "lte_enable", ![s].lat = 0]
    /\ LteUnchanged

\* One of the steps [4] to [6b]: on a falsy result the event is queued and
\* the function returns False
StepOutcomes(r, name, next) ==
    {[Call(r, name, "ok") EXCEPT !.pc = next]}
    \cup SaveAndReturnFalse(Call(r, name, "fail"))
    \cup {Raised(r, name)}

lte_enable_modem(s) ==
    /\ req[s].pc = "lte_enable"
    /\ \E r \in StepOutcomes(req[s], "enable_modem", "lte_connect") :
         req' = [req EXCEPT ![s] = r]
    /\ LteUnchanged

lte_connect_lte(s) ==
    /\ req[s].pc = "lte_connect"
    /\ \E r \in StepOutcomes(req[s], "connect_lte", "lte_bearer") :
         req' = [req EXCEPT ![s] = r]
    /\ LteUnchanged

lte_get_bearer_info(s) ==
    /\ req[s].pc = "lte_bearer"
    /\ \E r \in StepOutcomes(req[s], "get_bearer_info", "lte_setup") :
         req' = [req EXCEPT ![s] = r]
    /\ LteUnchanged

lte_setup_network_interface(s) ==
    /\ req[s].pc = "lte_setup"
    /\ \E r \in StepOutcomes(req[s], "setup_network_interface", "lte_queue") :
         req' = [req EXCEPT ![s] = r]
    /\ LteUnchanged

\* [7] the pending queue, when there is one, is sent first
lte_process_local_queue(s) ==
    /\ req[s].pc = "lte_queue"
    /\ \/ req' = [req EXCEPT ![s].pc = "lte_http"]
       \/ req' = [req EXCEPT ![s] =
                    [Call(req[s], "process_local_queue", "ok")
                        EXCEPT !.pc = "lte_http"]]
       \/ req' = [req EXCEPT ![s] = Raised(req[s], "process_local_queue")]
    /\ LteUnchanged

\* return resp.status_code == 200; except Exception: return False
HttpResult(outcome) == IF outcome = "200" THEN "True" ELSE "False"

\* [8] send_event_http: the image is opened and posted once; every
\* exception inside gives False
send_event_http(s) ==
    /\ req[s].pc = "lte_http"
    /\ \/ \E outcome \in PostOutcomes :
            req' = [req EXCEPT ![s] =
                      [Call(Call(req[s], "session.post", outcome),
                            "send_event_http", HttpResult(outcome))
                          EXCEPT !.pc = "lte_report"]]
       \/ req' = [req EXCEPT ![s] =
                    [Call(Call(req[s], "open", "raise"),
                          "send_event_http", "False")
                        EXCEPT !.pc = "lte_report"]]
    /\ LteUnchanged

Returned(log, name) ==
    log[CHOOSE i \in 1..Len(log) : log[i].call = name].result

\* [8b] send_to_jr_api (handles every exception itself), then the result:
\* success returns True, failure queues the event and returns False
lte_send_to_jr_api(s) ==
    /\ req[s].pc = "lte_report"
    /\ LET r == Call(req[s], "send_to_jr_api", "ok")
       IN IF Returned(r.steps, "send_event_http") = "True"
          THEN req' = [req EXCEPT ![s] =
                         [r EXCEPT !.pc = "lte_finally", !.resp = TRUE]]
          ELSE \E q \in SaveAndReturnFalse(r) : req' = [req EXCEPT ![s] = q]
    /\ LteUnchanged

\* except Exception: the event is queued, whatever that gives, and the
\* function returns False
lte_except(s) ==
    /\ req[s].pc = "lte_except"
    /\ \E o \in {"returned", "raise"} :
         req' = [req EXCEPT ![s] =
                   [Call(req[s], "save_to_local_queue", o)
                       EXCEPT !.pc = "lte_finally", !.resp = FALSE]]
    /\ LteUnchanged

\* finally: disconnect and disable with a modem index, teardown, then
\* inference_resume when given
CleanupSteps(r) ==
    (IF r.id # 0 THEN <<"disconnect_lte", "disable_modem">> ELSE <<>>)
    \o <<"teardown_network_interface">>
    \o (IF r.args.inference_resume THEN <<"inference_resume">> ELSE <<>>)

\* The first n of the calls have returned
RECURSIVE CallsMade(_, _, _)
CallsMade(r, names, n) ==
    IF n = 0 THEN r ELSE Call(CallsMade(r, names, n - 1), names[n], "ok")

\* The finally clause handles nothing: either all its calls return and the
\* function returns its value, or one of them raises, the rest is not
\* run and the exception leaves the function
Cleanup(r) ==
    LET names == CleanupSteps(r)
    IN {[CallsMade(r, names, Len(names)) EXCEPT !.pc = "done",
                                                !.body = "returned", !.lat = 0]}
       \cup {[Call(CallsMade(r, names, k - 1), names[k], "raise")
                 EXCEPT !.pc = "done", !.body = "exception", !.lat = 0] :
               k \in 1..Len(names)}

lte_finally(s) ==
    /\ req[s].pc = "lte_finally"
    /\ \E r \in Cleanup(req[s]) : req' = [req EXCEPT ![s] = r]
    /\ LteUnchanged

NextLte ==
    \E s \in Slots :
        \/ lte_get_modem_index(s)
        \/ lte_get_signal_quality(s)
        \/ lte_inference_pause(s)
        \/ lte_enable_modem(s)
        \/ lte_connect_lte(s)
        \/ lte_get_bearer_info(s)
        \/ lte_setup_network_interface(s)
        \/ lte_process_local_queue(s)
        \/ send_event_http(s)
        \/ lte_send_to_jr_api(s)
        \/ lte_except(s)
        \/ lte_finally(s)

SpecLte == InitLte /\ [][NextLte]_vars

LteDone(s) == req[s].kind = "lte" /\ req[s].pc = "done"

Called(log, name) == \E i \in 1..Len(log) : log[i].call = name

Posts(log) == SelectSeq(log, LAMBDA e : e.call = "session.post")

\* C29: send_event_http makes at most MAX_RETRY posts; it returns True
\* exactly when its last post succeeded; when it returns False after a
\* connection error or a timeout it has made MAX_RETRY posts; a 4xx
\* response is never followed by another post.
C29_SendEventHttpRetriesUpToMaxRetry ==
    \A s \in Slots :
        (req[s].kind = "lte" /\ Called(req[s].steps, "send_event_http")) =>
            LET posts == Posts(req[s].steps)
                n == Len(posts)
                result == Returned(req[s].steps, "send_event_http")
            IN /\ n <= MAX_RETRY
               /\ result = "True" <=> (n >= 1 /\ posts[n].result = "200")
               /\ (result = "False" /\ n >= 1
                     /\ posts[n].result \in {"ConnectionError", "Timeout"})
                    => n = MAX_RETRY
               /\ \A i \in 1..n : posts[i].result = "401" => i = n

CleanupCalls ==
    {"disconnect_lte", "disable_modem", "teardown_network_interface",
     "inference_resume"}

ModemIndexObtained(log) ==
    \E i \in 1..Len(log) :
        log[i].call = "get_modem_index" /\ log[i].result = "index"

\* C30: when send_event_with_lte has ended, by any path, its log ends with
\* the whole cleanup and has no cleanup call before that: disconnect_lte and
\* disable_modem exactly when a modem index was obtained, then
\* teardown_network_interface, then inference_resume when it was given.
C30_CleanupRunsOnceAfterAllOtherSteps ==
    \A s \in Slots :
        LteDone(s) =>
            LET log == req[s].steps
                cleanup ==
                    (IF ModemIndexObtained(log)
                     THEN <<"disconnect_lte", "disable_modem">> ELSE <<>>)
                    \o <<"teardown_network_interface">>
                    \o (IF req[s].args.inference_resume
                        THEN <<"inference_resume">> ELSE <<>>)
                k == Len(log) - Len(cleanup)
            IN /\ k >= 0
               /\ \A i \in 1..Len(cleanup) : log[k + i].call = cleanup[i]
               /\ \A i \in 1..k : log[i].call \notin CleanupCalls

LteReturned(s) == LteDone(s) /\ req[s].body = "returned"

Saves(log) == SelectSeq(log, LAMBDA e : e.call = "save_to_local_queue")

\* C31 as stated: a run that returns False has called save_to_local_queue
\* exactly once, a run that returns True has not called it.
C31_FalseSavesExactlyOnce ==
    \A s \in Slots :
        LteReturned(s) =>
            Len(Saves(req[s].steps)) = (IF req[s].resp THEN 0 ELSE 1)

\* C31 amended: a run that returns True has not called save_to_local_queue;
\* a run that returns False has called it once, or twice in a row when the
\* first call raised inside the try body and the except clause called it
\* again; it is called once whenever no call of it raises.
C31_FalseSavesOnceOrAgainAfterRaise ==
    \A s \in Slots :
        LteReturned(s) =>
            LET log == req[s].steps
                n == Len(Saves(log))
            IN IF req[s].resp THEN n = 0
               ELSE /\ n \in {1, 2}
                    /\ (\A i \in 1..n : Saves(log)[i].result # "raise") => n = 1
                    /\ n = 2 =>
                         \E i \in 1..(Len(log) - 1) :
                             /\ log[i] = [call |-> "save_to_local_queue",
                                          result |-> "raise"]
                             /\ log[i + 1].call = "save_to_local_queue"

\* C31 witness: a run has returned False after send_event_http gave False,
\* with the event queued once
C31_Witness ==
    /\ LteReturned(1) /\ req[1].resp = FALSE
    /\ Called(req[1].steps, "send_event_http")
    /\ Returned(req[1].steps, "send_event_http") = "False"
    /\ Len(Saves(req[1].steps)) = 1

\* C32: send_event_with_lte never lets an exception out: whatever a step, a
\* hook or a cleanup action raises, every run ends by returning a boolean.
C32_EveryRunReturnsABoolean ==
    \A s \in Slots :
        LteDone(s) => (req[s].body = "returned" /\ req[s].resp \in BOOLEAN)

\* C33: send_event_http returns True when the response is 200 or 201, and
\* False for every other outcome (another status, an exception, no image).
C33_Http200And201AreSuccess ==
    \A s \in Slots :
        (req[s].kind = "lte" /\ Called(req[s].steps, "send_event_http")) =>
            LET posts == Posts(req[s].steps)
            IN Returned(req[s].steps, "send_event_http") =
                 (IF Len(posts) >= 1 /\ posts[Len(posts)].result \in {"200", "201"}
                  THEN "True" ELSE "False")

(***************************************************************************)
(* get_geolocation on the IP of an event (geolocation_service.py).  The IP *)
(* is whatever X-Forwarded-For or the connection gives: any string.        *)
(***************************************************************************)
\* ipaddress.ip_address(ip) for the strings used: its properties, or
\* ValueError for a string that is no IP address
ip_address(ip) ==
    CASE ip = "127.0.0.1" ->
           [valid |-> TRUE, is_private |-> TRUE, is_loopback |-> TRUE,
            is_link_local |-> FALSE]
      [] ip = "10.0.0.1" ->
           [valid |-> TRUE, is_private |-> TRUE, is_loopback |-> FALSE,
            is_link_local |-> FALSE]
      [] ip = "169.254.0.1" ->
           [valid |-> TRUE, is_private |-> TRUE, is_loopback |-> FALSE,
            is_link_local |-> TRUE]
      [] ip = "203.0.113.7" ->
           [valid |-> TRUE, is_private |-> TRUE, is_loopback |-> FALSE,
            is_link_local |-> FALSE]
      [] ip = "8.8.8.8" ->
           [valid |-> TRUE, is_private |-> FALSE, is_loopback |-> FALSE,
            is_link_local |-> FALSE]
      [] OTHER ->
           [valid |-> FALSE, is_private |-> FALSE, is_loopback |-> FALSE,
            is_link_local |-> FALSE]

GeoIps ==
    {"127.0.0.1", "10.0.0.1", "169.254.0.1", "203.0.113.7", "8.8.8.8",
     "not-an-ip"}

\* try: addr.is_private or addr.is_loopback or addr.is_link_local
\* except ValueError: return False
_is_private_ip(ip) ==
    LET addr == ip_address(ip)
    IN IF ~addr.valid THEN FALSE
       ELSE addr.is_private \/ addr.is_loopback \/ addr.is_link_local

\* What the geolocation API may answer once it is asked
ApiLookups == {l \in GeoLookups : l.fault # "private_ip"}

InitGeolocation ==
    /\ devices = BoundDevices
    /\ location_history = <<>>
    /\ detection_events = {}
    /\ event_seq = 0
    /\ notifications = <<>>
    /\ req \in [Slots -> {[Idle EXCEPT !.kind = "geo", !.pc = "geo",
                              !.ip = ip, !.args = [lookup |-> l]] :
                          ip \in GeoIps, l \in ApiLookups}]
    /\ started = 0
    /\ overlapped = [d \in DeviceIds |-> FALSE]
    /\ completed = [d \in DeviceIds |-> 0]

\* get_geolocation(ip): a private IP returns at once; otherwise the API is
\* asked (seen = "requested") and the call returns or raises by its answer
call_get_geolocation(s) ==
    /\ req[s].pc = "geo"
    /\ IF _is_private_ip(req[s].ip)
       THEN req' = [req EXCEPT ![s].pc = "done", ![s].seen = "not_requested",
                               ![s].geo = Unavailable, ![s].body = "returned"]
       ELSE IF GeolocationRaises(req[s].args.lookup)
       THEN req' = [req EXCEPT ![s].pc = "done", ![s].seen = "requested",
                               ![s].geo = Unavailable, ![s].body = "exception"]
       ELSE req' = [req EXCEPT ![s].pc = "done", ![s].seen = "requested",
                               ![s].geo = get_geolocation(req[s].args.lookup),
                               ![s].body = "returned"]
    /\ UNCHANGED <<devices, location_history, detection_events, event_seq,
                   notifications, started, overlapped, completed>>

NextGeolocation == \E s \in Slots : call_get_geolocation(s)

SpecGeolocation == InitGeolocation /\ [][NextGeolocation]_vars

\* C34: for a string that is no valid IP address get_geolocation returns
\* available = false and the geolocation API is not asked.
C34_InvalidIpIsPrivateAndNotLookedUp ==
    \A s \in Slots :
        (req[s].kind = "geo" /\ req[s].pc = "done"
           /\ ~ip_address(req[s].ip).valid) =>
            /\ req[s].seen = "not_requested"
            /\ req[s].body = "returned"
            /\ ~req[s].geo.available

\* C35: in every step the location_history rows that exist stay, in place,
\* with the same device, coordinates, registering user and time; no row goes
\* from inactive to active; a row goes from active to inactive only in a
\* step that also adds a new active row for the same device, so that rows of
\* other devices do not change at all.
C35_HistoryRowsOnlyEverDeactivated ==
    [][/\ Len(location_history') >= Len(location_history)
       /\ \A i \in 1..Len(location_history) :
            LET old == location_history[i]
                new == location_history'[i]
                last == location_history'[Len(location_history')]
            IN /\ [new EXCEPT !.active_flag = old.active_flag] = old
               /\ new.active_flag => old.active_flag
               /\ (old.active_flag /\ ~new.active_flag) =>
                     /\ Len(location_history') = Len(location_history) + 1
                     /\ last.device_id = old.device_id
                     /\ last.active_flag
                     /\ last.id > old.id]_vars

\* C35 witness: both devices have rows, device 1 has a superseded row and a
\* newer active one, and the first row of device 2 is still active
C35_Witness ==
    \E i, j, k \in 1..Len(location_history) :
        /\ i < j
        /\ location_history[i].device_id = 1 /\ ~location_history[i].active_flag
        /\ location_history[j].device_id = 1 /\ location_history[j].active_flag
        /\ location_history[k].device_id = 2 /\ location_history[k].active_flag
        /\ k < j

(***************************************************************************)
(* Device side: the local queue of unsent events (lte_sender.py).  The     *)
(* first slot is the device; queue is its queue directory, one record per  *)
(* file: the name is {queued_ts}_{event_id}.json and n tells the saves     *)
(* apart.  queued_ts is read from the wall clock, which may stand still    *)
(* or be set back between two saves.                                       *)
(***************************************************************************)
\* The limit of the queue, scaled down from 100 as the module's own test does
LTE_QUEUE_MAX == 3

\* Calls of save_to_local_queue and process_local_queue in one run
MaxQueueOps == 4

ClockValues == 1..3
EventIds == {1, 2}

\* process_local_queue(limit): the default is 3
Limits == {0, 1, 2, 3}

\* What happens to one entry of the queue when it is processed
EntryOutcomes == {"sent", "send_failed", "unreadable", "image_missing"}

\* sorted(LTE_QUEUE_DIR.glob("*.json")): the order of the file names
NameBefore(f, g) ==
    \/ f.queued_ts < g.queued_ts
    \/ (f.queued_ts = g.queued_ts /\ f.event_id < g.event_id)

SameName(f, g) == f.queued_ts = g.queued_ts /\ f.event_id = g.event_id

\* Mutant: the overflow is taken from the end of the sorted list
First_FromTheEnd(files, k) ==
    CHOOSE T \in SUBSET files :
        /\ Cardinality(T) = k
        /\ \A f \in T, g \in files \ T : NameBefore(g, f)

\* existing[:k]: the first k files in the order of their names
First(files, k) ==
    CHOOSE T \in SUBSET files :
        /\ Cardinality(T) = k
        /\ \A f \in T, g \in files \ T : NameBefore(f, g)

Min2(a, b) == IF a < b THEN a ELSE b

Max2(a, b) == IF a > b THEN a ELSE b

RECURSIVE InNameOrder(_)
InNameOrder(files) ==
    IF files = {} THEN <<>>
    ELSE LET f == CHOOSE x \in files : \A g \in files \ {x} : NameBefore(x, g)
         IN <<f>> \o InNameOrder(files \ {f})

InitQueue ==
    /\ devices = BoundDevices
    /\ location_history = <<>>
    /\ detection_events = {}
    /\ event_seq = 0
    /\ notifications = <<>>
    /\ req = [s \in Slots |-> IF s = 1 THEN [Idle EXCEPT !.pc = "queue"] ELSE Idle]
    /\ started = 0
    /\ overlapped = [d \in DeviceIds |-> FALSE]
    /\ completed = [d \in DeviceIds |-> 0]

QueueUnchanged ==
    UNCHANGED <<devices, location_history, detection_events, event_seq,
                notifications, overlapped, completed>>

\* save_to_local_queue: the file is written (over a file of the same name),
\* then the first files beyond LTE_QUEUE_MAX are unlinked and True is
\* returned; an OSError at the write or at the unlink returns False
save_to_local_queue(s) ==
    /\ req[s].pc = "queue" /\ started < MaxQueueOps
    /\ \E now \in ClockValues, e \in EventIds,
          oserror \in {"none", "write", "unlink"} :
         LET new == [queued_ts |-> now, event_id |-> e, n |-> started + 1]
             written == {f \in req[s].queue : ~SameName(f, new)} \cup {new}
             overflow == Max2(0, Cardinality(written) - LTE_QUEUE_MAX)
             removed == First(written, overflow)
             r == [req[s] EXCEPT !.kind = "save", !.event = new, !.steps = <<>>,
                                 !.args = NULL]
         IN IF oserror = "write"
            THEN req' = [req EXCEPT ![s] =
                           [r EXCEPT !.resp = FALSE, !.cand = {}]]
            ELSE IF oserror = "unlink" /\ overflow > 0
            THEN req' = [req EXCEPT ![s] =
                           [r EXCEPT !.resp = FALSE, !.cand = {},
                                     !.queue = written]]
            ELSE req' = [req EXCEPT ![s] =
                           [r EXCEPT !.resp = TRUE, !.cand = removed,
                                     !.queue = written \ removed]]
    /\ started' = started + 1
    /\ QueueUnchanged

\* The handled entries that stay in the queue: those whose send failed
Kept(target, outcome) == {f \in target : outcome[f] = "send_failed"}

\* process_local_queue(limit): the first `limit` files in name order are
\* handled one after the other; steps is the log of what was done with each
process_local_queue(s) ==
    /\ req[s].pc = "queue" /\ started < MaxQueueOps
    /\ \E limit \in Limits :
         LET target == First(req[s].queue,
                             Min2(limit, Cardinality(req[s].queue)))
             order == InNameOrder(target)
         IN \E outcome \in [target -> EntryOutcomes] :
              req' = [req EXCEPT ![s] =
                        [req[s] EXCEPT
                           !.kind = "process",
                           !.args = [limit |-> limit],
                           !.event = NULL, !.cand = {},
                           !.steps = [i \in 1..Len(order) |->
                                        [file |-> order[i],
                                         outcome |-> outcome[order[i]]]],
                           !.resp = Cardinality(
                                      {f \in target : outcome[f] = "sent"}),
                           !.queue = (req[s].queue \ target)
                                        \cup Kept(target, outcome)]]
    /\ started' = started + 1
    /\ QueueUnchanged

NextQueue ==
    \E s \in Slots :
        \/ save_to_local_queue(s)
        \/ process_local_queue(s)

SpecQueue == InitQueue /\ [][NextQueue]_vars

Saved(s) == req[s].pc = "queue" /\ req[s].kind = "save" /\ req[s].resp = TRUE

\* C36: after a save_to_local_queue that returned True the queue holds at
\* most LTE_QUEUE_MAX entries, every entry removed comes before every entry
\* left in the order of queueing times, and the entry just saved is there.
C36_QueueBoundedAndSavedEntryRetained ==
    \A s \in Slots :
        Saved(s) =>
            /\ Cardinality(req[s].queue) <= LTE_QUEUE_MAX
            /\ \A f \in req[s].cand, g \in req[s].queue : NameBefore(f, g)
            /\ req[s].event \in req[s].queue

Handled(log) == {log[i].file : i \in 1..Len(log)}

Index(log, name) == CHOOSE i \in 1..Len(log) : log[i].call = name

\* C38: inference_pause is called at most once and before enable_modem; it
\* is not called in a run that stopped at modem detection or at the
\* low-signal skip; the run skips exactly for a signal from 1 to
\* SIGNAL_SKIP_THRESHOLD, not for a signal of 0 or an unknown one.
C38_PauseOnceBeforeEnableNotOnSkip ==
    \A s \in Slots :
        req[s].kind = "lte" =>
            LET log == req[s].steps
                pauses == SelectSeq(log, LAMBDA e : e.call = "inference_pause")
            IN /\ Len(pauses) <= 1
               /\ (Called(log, "inference_pause") /\ Called(log, "enable_modem"))
                    => Index(log, "inference_pause") < Index(log, "enable_modem")
               /\ ~ModemIndexObtained(log) => ~Called(log, "inference_pause")
               /\ (Called(log, "get_signal_quality")
                     /\ Returned(log, "get_signal_quality") = "skip") =>
                       /\ ~Called(log, "inference_pause")
                       /\ ~Called(log, "enable_modem")
                       /\ req[s].pc # "done" =>
                            req[s].lat \in 1..SIGNAL_SKIP_THRESHOLD
               /\ req[s].pc = "lte_pause" =>
                    /\ Returned(log, "get_signal_quality") = "ok"
                    /\ req[s].lat \notin 1..SIGNAL_SKIP_THRESHOLD

\* C38 witness: with inference_pause given, a run has skipped at a signal
\* equal to the threshold and has not called the hook
C38_Witness ==
    /\ req[1].kind = "lte" /\ req[1].pc = "lte_finally"
    /\ req[1].args.inference_pause
    /\ req[1].lat = SIGNAL_SKIP_THRESHOLD
    /\ Returned(req[1].steps, "get_signal_quality") = "skip"
    /\ ~Called(req[1].steps, "inference_pause")

(***************************************************************************)
(* The registered region receive_event hands to the evaluator              *)
(***************************************************************************)

MaxSendCalls == 2   \* calls of the two functions in one behaviour

\* An exception that is not an Exception: except Exception lets it through
Interrupts == {"KeyboardInterrupt"}

InitResolver ==
    /\ devices = BoundDevices
    /\ location_history = <<>>
    /\ detection_events = {}
    /\ event_seq = 0
    /\ notifications = <<>>
    /\ req = [s \in Slots |->
                IF s = 1 THEN [Idle EXCEPT !.kind = "resolver", !.pc = "gai_idle"]
                         ELSE Idle]
    /\ started = 0
    /\ overlapped = [d \in DeviceIds |-> FALSE]
    /\ completed = [d \in DeviceIds |-> 0]

ResolverUnchanged ==
    UNCHANGED <<devices, location_history, detection_events, event_seq,
                notifications, overlapped, completed>>

\* socket.getaddrinfo = _patched_gai
Patch(r) == [r EXCEPT !.getaddrinfo = "_patched_gai"]

\* Mutant: the except clause of send_event_http leaves the patch in place
RestoreInExcept_Missing(r) == r

\* socket.getaddrinfo = _orig_getaddrinfo in send_event_http's except clause
RestoreInExcept(r) == [r EXCEPT !.getaddrinfo = "_orig_getaddrinfo"]

\* socket.getaddrinfo = _orig_getaddrinfo inside the with block, after the post
RestoreInWith(r) == [r EXCEPT !.getaddrinfo = "_orig_getaddrinfo"]

\* finally: socket.getaddrinfo = _orig_getaddrinfo in send_to_jr_api
RestoreInFinally(r) == [r EXCEPT !.getaddrinfo = "_orig_getaddrinfo"]

\* send_to_jr_api's outer except clause: log, then restore
RestoreInOuterExcept(r) == [r EXCEPT !.getaddrinfo = "_orig_getaddrinfo"]

\* The call returns to its caller with a value
GaiReturn(r, name, value) ==
    [Call(r, name, value) EXCEPT !.pc = "gai_idle", !.body = "returned"]

\* An Exception leaves the call; the caller catches it
GaiRaise(r, name) ==
    [Call(r, name, "raise") EXCEPT !.pc = "gai_idle", !.body = "exception"]

\* An interrupt leaves the call and ends the process
GaiExit(r, name) ==
    [Call(r, name, "interrupt") EXCEPT !.pc = "exited", !.body = "exception"]

call_send_event_http(s) ==
    /\ req[s].pc = "gai_idle" /\ started < MaxSendCalls
    /\ \E image_exists \in BOOLEAN :
         req' = [req EXCEPT ![s] =
                   [req[s] EXCEPT !.kind = "send_event_http", !.pc = "http_patch",
                                  !.seen = req[s].getaddrinfo, !.body = NULL,
                                  !.args = [image_exists |-> image_exists]]]
    /\ started' = started + 1
    /\ ResolverUnchanged

\* Session and adapters, urlparse, _resolve_host (which handles its own
\* exceptions), then the patch; all of it before the try statement
http_patch(s) ==
    /\ req[s].pc = "http_patch"
    /\ \/ req' = [req EXCEPT ![s] =
                    [Patch(Call(req[s], "patch", "ok")) EXCEPT !.pc = "http_open"]]
       \/ req' = [req EXCEPT ![s] = GaiRaise(req[s], "send_event_http")]
    /\ UNCHANGED started /\ ResolverUnchanged

\* with open(image_path, "rb"): a missing file raises into the except clause
http_open(s) ==
    /\ req[s].pc = "http_open"
    /\ req' = [req EXCEPT ![s] =
                 IF req[s].args.image_exists
                     THEN [Call(req[s], "open", "ok") EXCEPT !.pc = "http_post"]
                     ELSE GaiReturn(RestoreInExcept(Call(req[s], "open", "raise")),
                                    "send_event_http", "False")]
    /\ UNCHANGED started /\ ResolverUnchanged

\* session.post: a response, an Exception, or an interrupt
http_post(s) ==
    /\ req[s].pc = "http_post"
    /\ \E o \in PostOutcomes \cup Interrupts :
         LET r == Call(req[s], "session.post", o) IN
         req' = [req EXCEPT ![s] =
                   IF o \in Interrupts THEN GaiExit(r, "send_event_http")
                   ELSE IF o \in {"ConnectionError", "Timeout"}
                       THEN GaiReturn(RestoreInExcept(r), "send_event_http", "False")
                   ELSE GaiReturn(RestoreInWith(r), "send_event_http",
                                  IF o = "200" THEN "True" ELSE "False")]
    /\ UNCHANGED started /\ ResolverUnchanged

call_send_to_jr_api(s) ==
    /\ req[s].pc = "gai_idle" /\ started < MaxSendCalls
    /\ req' = [req EXCEPT ![s] =
                 [req[s] EXCEPT !.kind = "send_to_jr_api", !.pc = "jr_prepare",
                                !.seen = req[s].getaddrinfo, !.body = NULL,
                                !.args = NULL]]
    /\ started' = started + 1
    /\ ResolverUnchanged

\* The outer try up to session.mount: an Exception (metadata that is no dict,
\* the adapter) goes to the outer except clause
jr_prepare(s) ==
    /\ req[s].pc = "jr_prepare"
    /\ \/ req' = [req EXCEPT ![s] =
                    [Call(req[s], "prepare", "ok") EXCEPT !.pc = "jr_patch"]]
       \/ req' = [req EXCEPT ![s] =
                    GaiReturn(RestoreInOuterExcept(Call(req[s], "prepare", "raise")),
                              "send_to_jr_api", "None")]
    /\ UNCHANGED started /\ ResolverUnchanged

\* The first inner try: the patch, or an Exception that is passed over
jr_patch(s) ==
    /\ req[s].pc = "jr_patch"
    /\ \/ req' = [req EXCEPT ![s] =
                    [Patch(Call(req[s], "patch", "ok")) EXCEPT !.pc = "jr_post"]]
       \/ req' = [req EXCEPT ![s] =
                    [Call(req[s], "patch", "raise") EXCEPT !.pc = "jr_post"]]
    /\ UNCHANGED started /\ ResolverUnchanged

\* What the second inner try gives: a response (whose body may not be JSON),
\* an Exception, or an interrupt
JrOutcomes == PostOutcomes \cup {"200 not JSON"} \cup Interrupts

\* The second inner try with its finally clause, then the outer except clause
jr_post(s) ==
    /\ req[s].pc = "jr_post"
    /\ \E o \in JrOutcomes :
         LET r == RestoreInFinally(Call(req[s], "session.post", o)) IN
         req' = [req EXCEPT ![s] =
                   IF o \in Interrupts THEN GaiExit(r, "send_to_jr_api")
                   ELSE IF o \in {"ConnectionError", "Timeout", "200 not JSON"}
                       THEN GaiReturn(RestoreInOuterExcept(r), "send_to_jr_api", "None")
                   ELSE GaiReturn(r, "send_to_jr_api", "None")]
    /\ UNCHANGED started /\ ResolverUnchanged

NextResolver ==
    \E s \in Slots :
        \/ call_send_event_http(s)
        \/ http_patch(s)
        \/ http_open(s)
        \/ http_post(s)
        \/ call_send_to_jr_api(s)
        \/ jr_prepare(s)
        \/ jr_patch(s)
        \/ jr_post(s)

SpecResolver == InitResolver /\ [][NextResolver]_vars

\* The call last begun has returned
GaiReturned(s) ==
    /\ req[s].kind \in {"send_event_http", "send_to_jr_api"}
    /\ req[s].pc = "gai_idle" /\ req[s].body = "returned"

\* C40: after send_event_http or send_to_jr_api returns, on every path,
\* socket.getaddrinfo is the original resolver, which is what it was before
\* the call.
C40_ResolverRestoredOnReturn ==
    \A s \in Slots :
        GaiReturned(s) =>
            /\ req[s].getaddrinfo = "_orig_getaddrinfo"
            /\ req[s].getaddrinfo = req[s].seen

\* C40 witness: send_event_http patched the resolver, found no image file and
\* returned False with the original resolver back
C40_Witness ==
    /\ GaiReturned(1) /\ req[1].kind = "send_event_http"
    /\ ~req[1].args.image_exists
    /\ LET log == req[1].steps IN
          /\ log[Len(log)] = [call |-> "send_event_http", result |-> "False"]
          /\ log[Len(log) - 1] = [call |-> "open", result |-> "raise"]
          /\ log[Len(log) - 2] = [call |-> "patch", result |-> "ok"]
    /\ req[1].getaddrinfo = "_orig_getaddrinfo"
====
